---- MODULE Spec2Model ----
(***************************************************************************)
(* State-machine model of the LiDAR anomaly detector's clustering engine   *)
(* (DBScan.cc), its LVX file scanner (ScannerLVX.cc) and the object        *)
(* characterizer around them.                                              *)
(*                                                                         *)
(* Conventions.                                                            *)
(*  - Sequences are 1-based: position i of `points` is the C++ index i-1.  *)
(*    Cluster ids are the C++ ids (0, 1, 2, ...).                          *)
(*  - Points lie on the x axis (y = z = 0), so a point is its integer x    *)
(*    coordinate and Euclidean distance is |x1 - x2|.                      *)
(*  - Normals are planar integer vectors <<x, y>> of equal length          *)
(*    (length 5), the zero vector standing for "no normal".                *)
(***************************************************************************)
EXTENDS Integers, Sequences, FiniteSets, TLC

(***************************************************************************)
(* Bounds of the explored inputs.                                          *)
(***************************************************************************)
MaxPoints == 5
MaxCoord == 3
MaxMinPoints == 4
MaxFacePoints == 3
MaxFaceCoord == 2
MaxRuns == 2
MaxFrames == 2
MaxPackets == 2
MaxScans == 3
MaxPhaseFrames == 1
MaxSparsePoints == 7
MaxSparseCoord == 4
MaxFaces == 2
MaxBoxPoints == 3
MaxBoxCoord == 1
MaxInputLen == 7
MaxExtent == 2
MaxThickness == 1

(***************************************************************************)
(* Program constants.                                                      *)
(***************************************************************************)
cUnclassified == -1
cNoise == -4
CLUSTER_POINT_PROXIMITY == 1
FACE_POINT_PROXIMITY == 1
MIN_FACE_POINTS == 2
\* livox GetPointsPerPacket(kExtendCartesian), 96 in the SDK.
PointsPerPacket == 2
EXTENT_TOLERANCE == 0
UInt32Bytes == 4
UInt64Bytes == 8
ByteBase == 256
ByteValues == {0, 255}
THICKNESS_TOLERANCE == 0
\* Angle thresholds, each given by the square of its cosine <<num, den>>:
\* 60, 45 and 30 degrees.
MAX_NORMAL_VECT_ANGLE == <<1, 4>>
MAX_MEAN_VECT_ANGLE == <<1, 2>>
MAX_MEAN_VECT_ANGLE_SINGLE == <<3, 4>>

VARIABLES
    \* ---- DBScan: the point buffer and the locals of the running pass
    points,             \* std::vector<Point>: the x coordinate of each point
    cID,                \* Point::cID of each point
    octOrder,           \* Octree: the order in which a query reports points
    MIN_CLUSTER_POINTS, \* config.h value, fixed for a whole behaviour
    normals,            \* std::vector<Vector> computed by normals()
    mode,               \* which pass runs: "clusters" | "normals"
    pcDB,               \* "idle" | "loop" | "expand" | "done"
    clusterID,          \* int clusterID
    clusters,           \* the list returned by clusters()
    faces,              \* the list returned by normals()
    p,                  \* position of the outer for loop
    centroid,           \* position of the point being expanded
    clusterSeeds,       \* clusterSeeds.second: the seed worklist
    seedIdx,            \* i of the seed loop (1-based; C++ i = seedIdx - 1)
    clusterPoints,      \* indices gathered for the cluster being expanded
    clusterNormals,     \* normals gathered for the mean
    \* ---- history of the runs (not program state)
    run,                \* number of passes started on this buffer
    fresh,              \* the running pass started with every tag Unclassified
    starts,             \* position of the point that started each cluster
    history             \* per finished pass: what it returned and left

dbVars == <<points, cID, octOrder, MIN_CLUSTER_POINTS, normals, mode, pcDB,
            clusterID, clusters, faces, p, centroid, clusterSeeds, seedIdx,
            clusterPoints, clusterNormals, run, fresh, starts, history>>

VARIABLES
    \* ---- the LVX file and its handle (livox_ros::LvxFileHandle)
    file,               \* the frames of the file, each a list of packet types
    badFrame,           \* number of the frame whose read fails (0: none)
    lvxState,           \* lvx_file.GetFileState(): "Ok" | "AtEnd" | "OpenFail"
    filePos,            \* number of the frame the next read fetches
    \* ---- ScannerLVX
    packets_of_frame,   \* the frame held by the packet buffer
    curFrame,           \* number of that frame in the file (0: none yet)
    scanning,           \* bool scanning
    frameOffset,        \* offset in the frame, counted in packets
    packetOffset,       \* offset in the packet, counted in points
    fileState,          \* readData's local fileState: "Ok" | "AtEnd" | "ReadFail"
    pcSc,               \* "idle" | "while" | "ret": where scan() stands
    ret,                \* what the last scan() returned: "None" | "Ok" | "Eof" | "Error"
    \* ---- history of the scanner (not program state)
    delivered,          \* <<frame, packet, point>> of every callback invocation
    scans,              \* number of scan() calls made
    eofs,               \* number of scan() calls that returned Eof
    pausedAt,           \* the points on which the callback called pause()
    fetchFailed,        \* the running scan() had a read fail
    released            \* number of times stop() released the packet buffer

scVars == <<file, badFrame, lvxState, filePos, packets_of_frame, curFrame,
            scanning, frameOffset, packetOffset, fileState, pcSc, ret,
            delivered, scans, eofs, pausedAt, fetchFailed, released>>

VARIABLES
    \* ---- ObjectCharacterizer
    state,              \* enum CharacterizerState state
    object,             \* the object point buffer (points as delivered)
    background,         \* the background point buffer (points as delivered)
    pcCh,               \* "idle", or where the running operation stands: "scan" |
                        \* "octree" | "clustering" (defineObject), "background", "wait"
    snapshot            \* history: the buffer when finalization began

chVars == <<state, object, background, pcCh, snapshot>>

VARIABLES
    \* ---- AnomalyDetector::compare
    cmpObject,          \* the faces of the object
    cmpModel,           \* the faces of the model
    tieLast,            \* which of two equally near model faces is taken
    report              \* <<the AnomalyReport>>, empty before compare()

cmpVars == <<cmpObject, cmpModel, tieLast, report>>

VARIABLES
    \* ---- BBox
    bbPoints,           \* the points the box is built from
    bbox                \* <<the BBox>>, empty before construction

bbVars == <<bbPoints, bbox>>

VARIABLES
    \* ---- ObjectCharacterizer's frame durations
    objMs,              \* history: the milliseconds last given for objFrame
    backMs,             \* history: the milliseconds last given for backFrame
    objFrame,           \* uint64_t objFrame
    backFrame,          \* uint64_t backFrame
    lastSet,            \* history: the operation that last stored a duration
    \* ---- ObjectCharacterizator
    frameDurationMs,    \* history: the milliseconds given to the constructor
    characterizator     \* <<the ObjectCharacterizator>>, empty before construction

frVars == <<objMs, backMs, objFrame, backFrame, lastSet, frameDurationMs, characterizator>>

VARIABLES
    \* ---- CLICommand
    input,              \* the text given to parse()
    command,            \* <<the CLICommand returned>>, empty before parse()
    subIndex,           \* <<the unsigned int given to operator[]>>, empty before the call
    subItem             \* <<what operator[] returned>>, empty before the call

cliVars == <<input, command, subIndex, subItem>>

fnVars == <<cmpVars, bbVars, frVars, cliVars>>

vars == <<dbVars, scVars, chVars, fnVars>>

(***************************************************************************)
(* Helpers on sequences.                                                   *)
(***************************************************************************)
Abs(x) == IF x < 0 THEN -x ELSE x

Range(s) == {s[i] : i \in 1..Len(s)}

Count(s, x) == Cardinality({i \in 1..Len(s) : s[i] = x})

RemoveAt(s, k) == [i \in 1..(Len(s) - 1) |-> IF i < k THEN s[i] ELSE s[i + 1]]

Identity(n) == [i \in 1..n |-> i]

Reverse(n) == [i \in 1..n |-> n + 1 - i]

OctreeOrders(n) == {Identity(n), Reverse(n)}

(***************************************************************************)
(* Point.hh                                                                *)
(***************************************************************************)
distance3D(a, b) == Abs(a - b)

PointEq(a, b) == a = b

(***************************************************************************)
(* Octree::searchNeighbors with the sphere kernel: the positions of all     *)
(* points within `radius` of `c`, in the octree's own order.               *)
(***************************************************************************)
searchNeighbors(c, radius) ==
    SelectSeq(octOrder, LAMBDA i : distance3D(points[i], c) <= radius)

(***************************************************************************)
(* DBScan::centroidNeighbours                                              *)
(***************************************************************************)
\* Variant: only Unclassified neighbours are listed.
centroidNeighbours_UnclassifiedOnly(c) ==
    LET neighbourPoints == searchNeighbors(points[c], CLUSTER_POINT_PROXIMITY)
    IN  [first |-> Len(neighbourPoints),
         second |-> SelectSeq(neighbourPoints, LAMBDA i : cID[i] = cUnclassified)]

\* Variant: the query's result is not filtered by tag.
centroidNeighbours_NoTagFilter(c) ==
    LET neighbourPoints == searchNeighbors(points[c], CLUSTER_POINT_PROXIMITY)
    IN  [first |-> Len(neighbourPoints), second |-> neighbourPoints]

centroidNeighbours(c) ==
    LET neighbourPoints == searchNeighbors(points[c], CLUSTER_POINT_PROXIMITY)
    IN  [first |-> Len(neighbourPoints),
         second |-> SelectSeq(neighbourPoints, LAMBDA i : cID[i] < 0)]

\* The loop of lines 52-59: tag every seed, remember the position (in the
\* seed list) of the last seed whose coordinates equal the centroid's.
SetAll(tags, idx, k) == [i \in 1..Len(tags) |-> IF i \in Range(idx) THEN k ELSE tags[i]]

LastEqual(seeds, c) ==
    LET hits == {j \in 1..Len(seeds) : PointEq(points[seeds[j]], points[c])}
    IN  IF hits = {} THEN 1 ELSE CHOOSE j \in hits : \A h \in hits : h <= j

\* Variant: the neighbours are listed and queued but their tags are left.
RECURSIVE Absorb_KeepsTags(_, _, _)
Absorb_KeepsTags(nb, k, st) ==
    IF nb = <<>> THEN st
    ELSE LET i == Head(nb)
             st1 == [tags |-> st.tags,
                     seeds |-> IF st.tags[i] = cUnclassified
                               THEN Append(st.seeds, i) ELSE st.seeds,
                     pts |-> Append(st.pts, i)]
         IN  Absorb_KeepsTags(Tail(nb), k, st1)

\* The loop of lines 68-76 over one seed's neighbours, in order: a neighbour
\* still Unclassified is appended to the worklist; every neighbour is tagged
\* and listed.
RECURSIVE Absorb(_, _, _)
Absorb(nb, k, st) ==
    IF nb = <<>> THEN st
    ELSE LET i == Head(nb)
             st1 == [tags |-> [st.tags EXCEPT ![i] = k],
                     seeds |-> IF st.tags[i] = cUnclassified
                               THEN Append(st.seeds, i) ELSE st.seeds,
                     pts |-> Append(st.pts, i)]
         IN  Absorb(Tail(nb), k, st1)

\* Variant: the threshold is off by one.
TooFewSeeds_OffByOne(seeds) == Len(seeds) < MIN_CLUSTER_POINTS - 1

\* line 43: the centroid's seed list is too short to start a cluster.
TooFewSeeds(seeds) == Len(seeds) < MIN_CLUSTER_POINTS

\* line 67: the seed is not a border point.
IsCoreSeed(clusterNeighbours) == clusterNeighbours.first >= MIN_CLUSTER_POINTS

(***************************************************************************)
(* DBScan::clusters                                                        *)
(***************************************************************************)
\* Variant: the loop expands every point, whatever its tag.
Unvisited_Any(i) == TRUE

\* line 27: the loop expands only points still Unclassified.
Unvisited(i) == cID[i] = cUnclassified

\* Variant: the id moves on after every expansion, also a failed one.
NextClusterID_Always(expanded) == clusterID + 1

\* lines 29-32: the id moves on only when the expansion made a cluster.
NextClusterID(expanded) == IF expanded THEN clusterID + 1 ELSE clusterID

\* lines 21-24: the call; the octree is built over the buffer.
ClustersCall ==
    /\ mode = "clusters"
    /\ pcDB \in {"idle", "done"}
    /\ run < MaxRuns
    /\ run' = run + 1
    /\ fresh' = (\A i \in 1..Len(points) : cID[i] = cUnclassified)
    /\ clusterID' = 0
    /\ clusters' = <<>>
    /\ starts' = <<>>
    /\ p' = 1
    /\ pcDB' = "loop"
    /\ UNCHANGED <<points, cID, octOrder, MIN_CLUSTER_POINTS, normals, mode, faces,
                   centroid, clusterSeeds, seedIdx, clusterPoints, clusterNormals,
                   history>>
    /\ UNCHANGED <<scVars, chVars, fnVars>>

\* line 26-27 with a point that is skipped.
ClustersSkip ==
    /\ mode = "clusters" /\ pcDB = "loop"
    /\ p <= Len(points)
    /\ ~Unvisited(p)
    /\ p' = p + 1
    /\ UNCHANGED <<points, cID, octOrder, MIN_CLUSTER_POINTS, normals, mode, pcDB,
                   clusterID, clusters, faces, centroid, clusterSeeds, seedIdx,
                   clusterPoints, clusterNormals, run, fresh, starts, history>>
    /\ UNCHANGED <<scVars, chVars, fnVars>>

\* lines 28, 40-46: expandCluster on a centroid with too few seeds.
ExpandClusterNoise ==
    /\ mode = "clusters" /\ pcDB = "loop"
    /\ p <= Len(points)
    /\ Unvisited(p)
    /\ TooFewSeeds(centroidNeighbours(p).second)
    /\ cID' = [cID EXCEPT ![p] = cNoise]
    /\ clusterID' = NextClusterID(FALSE)
    /\ p' = p + 1
    /\ UNCHANGED <<points, octOrder, MIN_CLUSTER_POINTS, normals, mode, pcDB,
                   clusters, faces, centroid, clusterSeeds, seedIdx,
                   clusterPoints, clusterNormals, run, fresh, starts, history>>
    /\ UNCHANGED <<scVars, chVars, fnVars>>

\* lines 28, 40, 48-60: expandCluster starts a cluster.
ExpandClusterStart ==
    /\ mode = "clusters" /\ pcDB = "loop"
    /\ p <= Len(points)
    /\ Unvisited(p)
    /\ LET seeds == centroidNeighbours(p).second
       IN  /\ ~TooFewSeeds(seeds)
           /\ clusterPoints' = seeds
           /\ cID' = SetAll(cID, seeds, clusterID)
           /\ clusterSeeds' = RemoveAt(seeds, LastEqual(seeds, p))
    /\ centroid' = p
    /\ seedIdx' = 1
    /\ starts' = Append(starts, p)
    /\ pcDB' = "expand"
    /\ UNCHANGED <<points, octOrder, MIN_CLUSTER_POINTS, normals, mode, clusterID,
                   clusters, faces, p, clusterNormals, run, fresh, history>>
    /\ UNCHANGED <<scVars, chVars, fnVars>>

\* lines 63-78: one iteration of the seed loop.
ExpandClusterSeed ==
    /\ mode = "clusters" /\ pcDB = "expand"
    /\ seedIdx <= Len(clusterSeeds)
    /\ LET clusterNeighbours == centroidNeighbours(clusterSeeds[seedIdx])
           st == IF IsCoreSeed(clusterNeighbours)
                 THEN Absorb(clusterNeighbours.second, clusterID,
                             [tags |-> cID, seeds |-> clusterSeeds, pts |-> clusterPoints])
                 ELSE [tags |-> cID, seeds |-> clusterSeeds, pts |-> clusterPoints]
       IN  /\ cID' = st.tags
           /\ clusterSeeds' = st.seeds
           /\ clusterPoints' = st.pts
    /\ seedIdx' = seedIdx + 1
    /\ UNCHANGED <<points, octOrder, MIN_CLUSTER_POINTS, normals, mode, pcDB,
                   clusterID, clusters, faces, p, centroid, clusterNormals, run,
                   fresh, starts, history>>
    /\ UNCHANGED <<scVars, chVars, fnVars>>

\* lines 80, 29-32: the expansion returns; the cluster is stored.
ExpandClusterReturn ==
    /\ mode = "clusters" /\ pcDB = "expand"
    /\ seedIdx > Len(clusterSeeds)
    /\ clusters' = Append(clusters, clusterPoints)
    /\ clusterID' = NextClusterID(TRUE)
    /\ p' = p + 1
    /\ pcDB' = "loop"
    /\ UNCHANGED <<points, cID, octOrder, MIN_CLUSTER_POINTS, normals, mode, faces,
                   centroid, clusterSeeds, seedIdx, clusterPoints, clusterNormals,
                   run, fresh, starts, history>>
    /\ UNCHANGED <<scVars, chVars, fnVars>>

\* line 36: the loop is over.
ClustersReturn ==
    /\ mode = "clusters" /\ pcDB = "loop"
    /\ p > Len(points)
    /\ pcDB' = "done"
    /\ history' = Append(history, [fresh |-> fresh, clusters |-> clusters,
                                   cID |-> cID, starts |-> starts])
    /\ UNCHANGED <<points, cID, octOrder, MIN_CLUSTER_POINTS, normals, mode,
                   clusterID, clusters, faces, p, centroid, clusterSeeds, seedIdx,
                   clusterPoints, clusterNormals, run, fresh, starts>>
    /\ UNCHANGED <<scVars, chVars, fnVars>>

\* Between two passes the caller builds an equal array: the same points in
\* the same order, every tag the constructor's default.
NewBuffer ==
    /\ mode = "clusters" /\ pcDB = "done"
    /\ run < MaxRuns
    /\ \E i \in 1..Len(points) : cID[i] # cUnclassified
    /\ cID' = [i \in 1..Len(points) |-> cUnclassified]
    /\ pcDB' = "idle"
    /\ UNCHANGED <<points, octOrder, MIN_CLUSTER_POINTS, normals, mode,
                   clusterID, clusters, faces, p, centroid, clusterSeeds, seedIdx,
                   clusterPoints, clusterNormals, run, fresh, starts, history>>
    /\ UNCHANGED <<scVars, chVars, fnVars>>

\* The comparator, the box, the frame durations and the command parser
\* while other parts are exercised.
ComparatorUnused ==
    /\ cmpObject = <<>>
    /\ cmpModel = <<>>
    /\ tieLast = FALSE
    /\ report = <<>>

BBoxUnused == bbPoints = <<>> /\ bbox = <<>>

FramesUnused ==
    /\ objMs = <<>>
    /\ backMs = <<>>
    /\ objFrame = <<>>
    /\ backFrame = <<>>
    /\ lastSet = "none"
    /\ frameDurationMs = <<>>
    /\ characterizator = <<>>

CLIUnused == input = <<>> /\ command = <<>> /\ subIndex = <<>> /\ subItem = <<>>

FunctionsUnused == ComparatorUnused /\ BBoxUnused /\ FramesUnused /\ CLIUnused

\* ObjectCharacterizer's constructor, lines 63-74.
CharacterizerInit ==
    /\ state = "defStopped"
    /\ object = <<>>
    /\ background = <<>>
    /\ pcCh = "idle"
    /\ snapshot = <<>>

\* The scanner while only the clustering engine is exercised.
ScannerUnused ==
    /\ file = <<>>
    /\ badFrame = 0
    /\ lvxState = "Ok"
    /\ filePos = 1
    /\ packets_of_frame = <<>>
    /\ curFrame = 0
    /\ scanning = FALSE
    /\ frameOffset = 0
    /\ packetOffset = 0
    /\ fileState = "Ok"
    /\ pcSc = "idle"
    /\ ret = "None"
    /\ delivered = <<>>
    /\ scans = 0
    /\ eofs = 0
    /\ pausedAt = {}
    /\ fetchFailed = FALSE
    /\ released = 0

PointArrays(maxN, maxC) == UNION {[1..n -> 0..maxC] : n \in 0..maxN}

InitClusters ==
    /\ points \in PointArrays(MaxPoints, MaxCoord)
    /\ cID = [i \in 1..Len(points) |-> cUnclassified]
    /\ octOrder \in OctreeOrders(Len(points))
    /\ MIN_CLUSTER_POINTS \in 2..MaxMinPoints
    /\ normals = <<>>
    /\ mode = "clusters"
    /\ pcDB = "idle"
    /\ clusterID = 0
    /\ clusters = <<>>
    /\ faces = <<>>
    /\ p = 1
    /\ centroid = 1
    /\ clusterSeeds = <<>>
    /\ seedIdx = 1
    /\ clusterPoints = <<>>
    /\ clusterNormals = <<>>
    /\ run = 0
    /\ fresh = TRUE
    /\ starts = <<>>
    /\ history = <<>>
    /\ ScannerUnused
    /\ CharacterizerInit
    /\ FunctionsUnused

NextClusters ==
    \/ ClustersCall
    \/ ClustersSkip
    \/ ExpandClusterNoise
    \/ ExpandClusterStart
    \/ ExpandClusterSeed
    \/ ExpandClusterReturn
    \/ ClustersReturn
    \/ NewBuffer

SpecClusters == InitClusters /\ [][NextClusters]_vars

(***************************************************************************)
(* Vectors (Point.hh) and Geometry                                         *)
(***************************************************************************)
ZeroVector == <<0, 0>>

\* The normals a point can get: none, or one of three directions of length 5
\* at 0, 36.87 and 90 degrees.
NormalDirs == {ZeroVector, <<5, 0>>, <<4, 3>>, <<0, 5>>}

scalarProduct(a, b) == a[1] * b[1] + a[2] * b[2]

\* a.vectorialAngle(b) <= t for a threshold t in [0, 90] degrees given by its
\* squared cosine: acos(a.b / (|a| |b|)) <= t. With a zero vector the
\* quotient is NaN and the comparison is false.
vectorialAngleLeq(a, b, t) ==
    /\ scalarProduct(a, a) # 0
    /\ scalarProduct(b, b) # 0
    /\ scalarProduct(a, b) >= 0
    /\ scalarProduct(a, b) * scalarProduct(a, b) * t[2]
         >= t[1] * scalarProduct(a, a) * scalarProduct(b, b)

\* Geometry::mean: the mean of the vectors, up to its length (only its
\* direction is ever used); no vectors give the zero vector.
RECURSIVE mean(_)
mean(vs) ==
    IF vs = <<>> THEN ZeroVector
    ELSE LET m == mean(Tail(vs))
         IN  <<Head(vs)[1] + m[1], Head(vs)[2] + m[2]>>

(***************************************************************************)
(* DBScan::centroidNormalNeighbours                                        *)
(***************************************************************************)
\* lines 186-190: the test a neighbour i of seed c passes.
NormalCoherent(c, meanNormal, i) ==
    /\ normals[i] # ZeroVector
    /\ \/ /\ vectorialAngleLeq(normals[c], normals[i], MAX_NORMAL_VECT_ANGLE)
          /\ vectorialAngleLeq(meanNormal, normals[i], MAX_MEAN_VECT_ANGLE)
       \/ vectorialAngleLeq(meanNormal, normals[i], MAX_MEAN_VECT_ANGLE_SINGLE)

centroidNormalNeighbours(c, meanNormal) ==
    LET neighbourPoints == searchNeighbors(points[c], FACE_POINT_PROXIMITY)
        coherent == SelectSeq(neighbourPoints, LAMBDA i : NormalCoherent(c, meanNormal, i))
    IN  [first |-> Len(coherent),
         second |-> SelectSeq(coherent, LAMBDA i : cID[i] < 0)]

\* line 126
TooFewFaceSeeds(seeds) == Len(seeds) < MIN_FACE_POINTS

\* line 155
IsCoreFaceSeed(clusterNeighbours) == clusterNeighbours.first >= MIN_FACE_POINTS

\* The loop of lines 156-165 over one seed's neighbours, in order.
RECURSIVE AbsorbNormal(_, _, _)
AbsorbNormal(nb, k, st) ==
    IF nb = <<>> THEN st
    ELSE LET i == Head(nb)
             st1 == [tags |-> [st.tags EXCEPT ![i] = k],
                     seeds |-> IF st.tags[i] = cUnclassified
                               THEN Append(st.seeds, i) ELSE st.seeds,
                     nrm |-> Append(st.nrm, normals[i]),
                     pts |-> Append(st.pts, i)]
         IN  AbsorbNormal(Tail(nb), k, st1)

(***************************************************************************)
(* DBScan::normals                                                         *)
(***************************************************************************)
\* Variant: the loop also expands points without a normal.
Seedable_IgnoreNormal(i) == cID[i] = cUnclassified

\* line 110: the loop expands Unclassified points that have a normal.
Seedable(i) == cID[i] = cUnclassified /\ normals[i] # ZeroVector

\* lines 102-107: the call; the octree is built and the normals computed
\* (Geometry::computeNormals: any outcome per point).
NormalsCall ==
    /\ mode = "normals"
    /\ pcDB = "idle"
    /\ run < MaxRuns
    /\ run' = run + 1
    /\ fresh' = (\A i \in 1..Len(points) : cID[i] = cUnclassified)
    /\ normals' \in [1..Len(points) -> NormalDirs]
    /\ clusterID' = 0
    /\ faces' = <<>>
    /\ starts' = <<>>
    /\ p' = 1
    /\ pcDB' = "loop"
    /\ UNCHANGED <<points, cID, octOrder, MIN_CLUSTER_POINTS, mode, clusters,
                   centroid, clusterSeeds, seedIdx, clusterPoints, clusterNormals,
                   history>>
    /\ UNCHANGED <<scVars, chVars, fnVars>>

\* lines 109-110 with a point that is skipped.
NormalsSkip ==
    /\ mode = "normals" /\ pcDB = "loop"
    /\ p <= Len(points)
    /\ ~Seedable(p)
    /\ p' = p + 1
    /\ UNCHANGED <<points, cID, octOrder, MIN_CLUSTER_POINTS, normals, mode, pcDB,
                   clusterID, clusters, faces, centroid, clusterSeeds, seedIdx,
                   clusterPoints, clusterNormals, run, fresh, starts, history>>
    /\ UNCHANGED <<scVars, chVars, fnVars>>

\* lines 111, 123-129: expandNormalCluster on a centroid with too few seeds.
ExpandNormalNoise ==
    /\ mode = "normals" /\ pcDB = "loop"
    /\ p <= Len(points)
    /\ Seedable(p)
    /\ TooFewFaceSeeds(centroidNormalNeighbours(p, normals[p]).second)
    /\ cID' = [cID EXCEPT ![p] = cNoise]
    /\ clusterID' = NextClusterID(FALSE)
    /\ p' = p + 1
    /\ UNCHANGED <<points, octOrder, MIN_CLUSTER_POINTS, normals, mode, pcDB,
                   clusters, faces, centroid, clusterSeeds, seedIdx,
                   clusterPoints, clusterNormals, run, fresh, starts, history>>
    /\ UNCHANGED <<scVars, chVars, fnVars>>

\* lines 111, 123, 131-147: expandNormalCluster starts a face.
ExpandNormalStart ==
    /\ mode = "normals" /\ pcDB = "loop"
    /\ p <= Len(points)
    /\ Seedable(p)
    /\ LET seeds == centroidNormalNeighbours(p, normals[p]).second
       IN  /\ ~TooFewFaceSeeds(seeds)
           /\ clusterPoints' = seeds
           /\ clusterNormals' = [j \in 1..Len(seeds) |-> normals[seeds[j]]]
           /\ cID' = SetAll(cID, seeds, clusterID)
           /\ clusterSeeds' = RemoveAt(seeds, LastEqual(seeds, p))
    /\ centroid' = p
    /\ seedIdx' = 1
    /\ starts' = Append(starts, p)
    /\ pcDB' = "expand"
    /\ UNCHANGED <<points, octOrder, MIN_CLUSTER_POINTS, normals, mode, clusterID,
                   clusters, faces, p, run, fresh, history>>
    /\ UNCHANGED <<scVars, chVars, fnVars>>

\* lines 150-167: one iteration of the seed loop; the mean is taken once,
\* before the seed's query.
ExpandNormalSeed ==
    /\ mode = "normals" /\ pcDB = "expand"
    /\ seedIdx <= Len(clusterSeeds)
    /\ LET meanNormal == mean(clusterNormals)
           clusterNeighbours == centroidNormalNeighbours(clusterSeeds[seedIdx], meanNormal)
           st0 == [tags |-> cID, seeds |-> clusterSeeds, nrm |-> clusterNormals,
                   pts |-> clusterPoints]
           st == IF IsCoreFaceSeed(clusterNeighbours)
                 THEN AbsorbNormal(clusterNeighbours.second, clusterID, st0)
                 ELSE st0
       IN  /\ cID' = st.tags
           /\ clusterSeeds' = st.seeds
           /\ clusterNormals' = st.nrm
           /\ clusterPoints' = st.pts
    /\ seedIdx' = seedIdx + 1
    /\ UNCHANGED <<points, octOrder, MIN_CLUSTER_POINTS, normals, mode, pcDB,
                   clusterID, clusters, faces, p, centroid, run, fresh, starts,
                   history>>
    /\ UNCHANGED <<scVars, chVars, fnVars>>

\* lines 169, 112-115: the expansion returns; the face is stored.
ExpandNormalReturn ==
    /\ mode = "normals" /\ pcDB = "expand"
    /\ seedIdx > Len(clusterSeeds)
    /\ faces' = Append(faces, clusterPoints)
    /\ clusterID' = NextClusterID(TRUE)
    /\ p' = p + 1
    /\ pcDB' = "loop"
    /\ UNCHANGED <<points, cID, octOrder, MIN_CLUSTER_POINTS, normals, mode,
                   clusters, centroid, clusterSeeds, seedIdx, clusterPoints,
                   clusterNormals, run, fresh, starts, history>>
    /\ UNCHANGED <<scVars, chVars, fnVars>>

\* line 119: the loop is over.
NormalsReturn ==
    /\ mode = "normals" /\ pcDB = "loop"
    /\ p > Len(points)
    /\ pcDB' = "done"
    /\ history' = Append(history, [fresh |-> fresh, clusters |-> faces,
                                   cID |-> cID, starts |-> starts])
    /\ UNCHANGED <<points, cID, octOrder, MIN_CLUSTER_POINTS, normals, mode,
                   clusterID, clusters, faces, p, centroid, clusterSeeds, seedIdx,
                   clusterPoints, clusterNormals, run, fresh, starts>>
    /\ UNCHANGED <<scVars, chVars, fnVars>>

InitNormals ==
    /\ points \in PointArrays(MaxFacePoints, MaxFaceCoord)
    /\ cID = [i \in 1..Len(points) |-> cUnclassified]
    /\ octOrder \in OctreeOrders(Len(points))
    /\ MIN_CLUSTER_POINTS = 2
    /\ normals = <<>>
    /\ mode = "normals"
    /\ pcDB = "idle"
    /\ clusterID = 0
    /\ clusters = <<>>
    /\ faces = <<>>
    /\ p = 1
    /\ centroid = 1
    /\ clusterSeeds = <<>>
    /\ seedIdx = 1
    /\ clusterPoints = <<>>
    /\ clusterNormals = <<>>
    /\ run = 0
    /\ fresh = TRUE
    /\ starts = <<>>
    /\ history = <<>>
    /\ ScannerUnused
    /\ CharacterizerInit
    /\ FunctionsUnused

NextNormals ==
    \/ NormalsCall
    \/ NormalsSkip
    \/ ExpandNormalNoise
    \/ ExpandNormalStart
    \/ ExpandNormalSeed
    \/ ExpandNormalReturn
    \/ NormalsReturn

SpecNormals == InitNormals /\ [][NextNormals]_vars

\* Either pass, each on its own buffers.
InitDBScan == InitClusters \/ InitNormals

NextDBScan == NextClusters \/ NextNormals

SpecDBScan == InitDBScan /\ [][NextDBScan]_vars

\* Both passes run to their end: the loops of lines 26-34, 62-78, 109-117
\* and 150-167 have no wait and no cancellation point, so a step that can
\* be taken is taken.
FairSpecDBScan == SpecDBScan /\ WF_vars(NextDBScan)

(***************************************************************************)
(* The LVX file (livox_ros::LvxFileHandle)                                 *)
(***************************************************************************)
\* A packet is its data type: kExtendCartesian or any other type.
PacketTypes == {"ext", "imu"}

Frames == UNION {[1..n -> PacketTypes] : n \in 0..MaxPackets}

Files == UNION {[1..n -> Frames] : n \in 0..MaxFrames}

\* lvx_file.GetPacketsOfFrame(&packets_of_frame) with the handle at frame
\* `pos`: the returned code, and the handle and the buffer afterwards. Past
\* the last frame the handle turns AtEnd; a failed read leaves its state.
GetPacketsOfFrame(pos, st) ==
    IF pos > Len(file)
    THEN [code |-> "AtEnd", state |-> "AtEnd", pos |-> pos,
          buf |-> packets_of_frame, frame |-> curFrame]
    ELSE IF pos = badFrame
    THEN [code |-> "ReadFail", state |-> st, pos |-> pos,
          buf |-> packets_of_frame, frame |-> curFrame]
    ELSE [code |-> "Ok", state |-> st, pos |-> pos + 1,
          buf |-> file[pos], frame |-> pos]

\* The clustering engine while only the scanner is exercised.
DBScanUnused ==
    /\ points = <<>>
    /\ cID = <<>>
    /\ octOrder = <<>>
    /\ MIN_CLUSTER_POINTS = 2
    /\ normals = <<>>
    /\ mode = "none"
    /\ pcDB = "idle"
    /\ clusterID = 0
    /\ clusters = <<>>
    /\ faces = <<>>
    /\ p = 1
    /\ centroid = 1
    /\ clusterSeeds = <<>>
    /\ seedIdx = 1
    /\ clusterPoints = <<>>
    /\ clusterNormals = <<>>
    /\ run = 0
    /\ fresh = TRUE
    /\ starts = <<>>
    /\ history = <<>>

(***************************************************************************)
(* ScannerLVX                                                              *)
(***************************************************************************)
\* ScannerLVX::init (lines 28-47) has opened the file and reset the offsets.
ScannerInit ==
    /\ file \in Files
    /\ badFrame \in 0..Len(file)
    /\ lvxState = "Ok"
    /\ filePos = 1
    /\ packets_of_frame = <<>>
    /\ curFrame = 0
    /\ scanning = FALSE
    /\ frameOffset = 0
    /\ packetOffset = 0
    /\ fileState = "Ok"
    /\ pcSc = "idle"
    /\ ret = "None"
    /\ delivered = <<>>
    /\ scans = 0
    /\ eofs = 0
    /\ pausedAt = {}
    /\ fetchFailed = FALSE
    /\ released = 0

\* line 54: the file was read to its end and no frame is half delivered.
AtFileEnd(st) == frameOffset = 0 /\ packetOffset = 0 /\ st = "AtEnd"

\* line 103: readData starts by fetching a frame.
FetchOnEntry == packetOffset = 0 /\ frameOffset = 0

\* Variant: the file is never opened again.
MustReopen_Never == FALSE

\* line 54: scan() closes the file and opens it again.
MustReopen == AtFileEnd(lvxState)

\* Variant: a running scan is never noticed.
AlreadyInUse_Never == FALSE

\* lines 52, 69: a scan is already running.
AlreadyInUse == scanning

\* ScannerLVX::scan, lines 49-73, with the entry of readData, lines 96-105.
scan ==
    /\ pcSc = "idle"
    /\ scans < MaxScans
    /\ scans' = scans + 1
    /\ IF AlreadyInUse
       THEN \* line 69-72: scanner already in use
            /\ ret' = "Error"
            /\ fetchFailed' = FALSE
            /\ UNCHANGED <<lvxState, filePos, packets_of_frame, curFrame, scanning,
                           fileState, pcSc>>
       ELSE \E opened \in (IF MustReopen THEN {"Ok", "OpenFail"} ELSE {lvxState}) :
            LET pos == IF MustReopen THEN 1 ELSE filePos
                got == GetPacketsOfFrame(pos, opened)
            IN  IF opened # "Ok"
                THEN \* lines 64-67
                     /\ ret' = "Error"
                     /\ lvxState' = opened
                     /\ filePos' = pos
                     /\ fetchFailed' = FALSE
                     /\ UNCHANGED <<packets_of_frame, curFrame, scanning, fileState, pcSc>>
                ELSE \* lines 60-61, 97-105
                     /\ scanning' = TRUE
                     /\ pcSc' = "while"
                     /\ ret' = "None"
                     /\ IF FetchOnEntry
                        THEN /\ fileState' = got.code
                             /\ lvxState' = got.state
                             /\ filePos' = got.pos
                             /\ packets_of_frame' = got.buf
                             /\ curFrame' = got.frame
                             /\ fetchFailed' = (got.code = "ReadFail")
                        ELSE /\ fileState' = "Ok"
                             /\ lvxState' = opened
                             /\ filePos' = pos
                             /\ fetchFailed' = FALSE
                             /\ UNCHANGED <<packets_of_frame, curFrame>>
    /\ UNCHANGED <<file, badFrame, released, frameOffset, packetOffset, delivered, eofs, pausedAt>>

\* scan() called on a bare scanner.
ScanCall == scan /\ UNCHANGED <<dbVars, chVars, fnVars>>

\* ScannerLVX::pause, lines 75-77, called while no scan() runs.
PauseOutside ==
    /\ pcSc = "idle"
    /\ scanning
    /\ scanning' = FALSE
    /\ UNCHANGED <<file, badFrame, released, lvxState, filePos, packets_of_frame, curFrame,
                   frameOffset, packetOffset, fileState, pcSc, ret, delivered,
                   scans, eofs, pausedAt, fetchFailed>>
    /\ UNCHANGED <<dbVars, chVars, fnVars>>

InFrame == pcSc = "while" /\ fileState = "Ok" /\ frameOffset < Len(packets_of_frame)

\* lines 118-121: the packet at frameOffset still has a point to deliver.
PointPending ==
    /\ packets_of_frame[frameOffset + 1] = "ext"
    /\ packetOffset < PointsPerPacket

\* Variant: the loop goes on whatever the flag.
KeepsScanning_Always(flag) == TRUE

\* line 129: after the callback the loop goes on only while scanning.
KeepsScanning(flag) == flag

\* lines 121-135: one point goes to the callback, which calls pause() or not.
DeliverPoint(pauses) ==
    /\ InFrame
    /\ PointPending
    /\ delivered' = Append(delivered, <<curFrame, frameOffset + 1, packetOffset + 1>>)
    /\ scanning' = IF pauses THEN FALSE ELSE scanning
    /\ pausedAt' = IF pauses THEN pausedAt \cup {Len(delivered) + 1} ELSE pausedAt
    /\ IF KeepsScanning(scanning')
       THEN packetOffset' = packetOffset + 1 /\ pcSc' = "while"
       ELSE \* the breaks of lines 133, 142 and 150
            packetOffset' = packetOffset /\ pcSc' = "ret"
    /\ UNCHANGED <<file, badFrame, released, lvxState, filePos, packets_of_frame, curFrame,
                   frameOffset, fileState, ret, scans, eofs, fetchFailed>>

\* The callback of a bare scanner: it may call pause().
Callback ==
    /\ \E pauses \in BOOLEAN : DeliverPoint(pauses)
    /\ UNCHANGED <<dbVars, chVars, fnVars>>

\* lines 125-127 with lines 49-52, 69-72: the callback of the pending point
\* calls scan() itself, while the flag is set; the call is rejected.
ScanFromCallback ==
    /\ InFrame
    /\ PointPending
    /\ AlreadyInUse
    /\ scans < MaxScans
    /\ scans' = scans + 1
    /\ ret' = "Error"
    /\ UNCHANGED <<file, badFrame, released, lvxState, filePos, packets_of_frame, curFrame,
                   scanning, frameOffset, packetOffset, fileState, pcSc, delivered,
                   eofs, pausedAt, fetchFailed>>
    /\ UNCHANGED <<dbVars, chVars, fnVars>>

\* lines 136-143: the packet is done (or is no point packet).
NextPacket ==
    /\ InFrame
    /\ ~PointPending
    /\ IF scanning
       THEN packetOffset' = 0 /\ frameOffset' = frameOffset + 1 /\ pcSc' = "while"
       ELSE UNCHANGED <<packetOffset, frameOffset>> /\ pcSc' = "ret"
    /\ UNCHANGED <<file, badFrame, released, lvxState, filePos, packets_of_frame, curFrame,
                   scanning, fileState, ret, delivered, scans, eofs, pausedAt,
                   fetchFailed>>
    /\ UNCHANGED <<dbVars, chVars, fnVars>>

\* lines 146-151: the frame is done; the next one is fetched.
NextFrame ==
    /\ pcSc = "while" /\ fileState = "Ok"
    /\ frameOffset >= Len(packets_of_frame)
    /\ IF scanning
       THEN LET got == GetPacketsOfFrame(filePos, lvxState)
            IN  /\ frameOffset' = 0
                /\ fileState' = got.code
                /\ lvxState' = got.state
                /\ filePos' = got.pos
                /\ packets_of_frame' = got.buf
                /\ curFrame' = got.frame
                /\ fetchFailed' = (fetchFailed \/ got.code = "ReadFail")
                /\ pcSc' = "while"
       ELSE /\ pcSc' = "ret"
            /\ UNCHANGED <<frameOffset, fileState, lvxState, filePos,
                           packets_of_frame, curFrame, fetchFailed>>
    /\ UNCHANGED <<file, badFrame, released, scanning, packetOffset, ret, delivered, scans,
                   eofs, pausedAt>>
    /\ UNCHANGED <<dbVars, chVars, fnVars>>

\* lines 154-159: the code readData, and so scan(), returns.
ReturnCode == IF AtFileEnd(lvxState) THEN "Eof" ELSE "Ok"

ReadDataReturn ==
    /\ \/ pcSc = "ret"
       \/ pcSc = "while" /\ fileState # "Ok"
    /\ ret' = ReturnCode
    /\ scanning' = IF AtFileEnd(lvxState) THEN FALSE ELSE scanning
    /\ eofs' = IF AtFileEnd(lvxState) THEN eofs + 1 ELSE eofs
    /\ pcSc' = "idle"
    /\ UNCHANGED <<file, badFrame, released, lvxState, filePos, packets_of_frame, curFrame,
                   frameOffset, packetOffset, fileState, delivered, scans,
                   pausedAt, fetchFailed>>
    /\ UNCHANGED <<dbVars, chVars, fnVars>>

InitScanner == ScannerInit /\ DBScanUnused /\ CharacterizerInit /\ FunctionsUnused

NextScanner ==
    \/ ScanCall
    \/ PauseOutside
    \/ Callback
    \/ ScanFromCallback
    \/ NextPacket
    \/ NextFrame
    \/ ReadDataReturn

SpecScanner == InitScanner /\ [][NextScanner]_vars

(***************************************************************************)
(* ScannerLVX::stop                                                        *)
(***************************************************************************)
MaxStops == 2

\* What the released buffer may hold when it is read: its old content or
\* anything else of the same size (data_size is kept in the scanner).
ReleasedContents == [1..Len(packets_of_frame) -> PacketTypes]

\* lvx_file.CloseLvxFile(), line 89: the closed handle has no frame left to
\* give; its state is not touched.
ClosedFilePos == Len(file) + 1

\* ScannerLVX::stop, lines 86-94, called while no scan() runs: the file is
\* closed and the buffer deleted; scanning, the offsets and the buffer's
\* pointer are left as they are.
StopOutside ==
    /\ pcSc = "idle"
    /\ released < MaxStops
    /\ released' = released + 1
    /\ filePos' = ClosedFilePos
    /\ packets_of_frame' \in ReleasedContents
    /\ UNCHANGED <<file, badFrame, lvxState, curFrame, scanning, frameOffset,
                   packetOffset, fileState, pcSc, ret, delivered, scans, eofs,
                   pausedAt, fetchFailed>>
    /\ UNCHANGED <<dbVars, chVars, fnVars>>

\* lines 121-135 with lines 86-94: the point goes to a callback that calls
\* stop() and not pause(); the flag is still set, so the loop goes on.
CallbackStops ==
    /\ InFrame
    /\ PointPending
    /\ released < MaxStops
    /\ delivered' = Append(delivered, <<curFrame, frameOffset + 1, packetOffset + 1>>)
    /\ released' = released + 1
    /\ filePos' = ClosedFilePos
    /\ packets_of_frame' \in ReleasedContents
    /\ IF KeepsScanning(scanning)
       THEN packetOffset' = packetOffset + 1 /\ pcSc' = "while"
       ELSE packetOffset' = packetOffset /\ pcSc' = "ret"
    /\ UNCHANGED <<file, badFrame, lvxState, curFrame, scanning, frameOffset,
                   fileState, ret, scans, eofs, pausedAt, fetchFailed>>
    /\ UNCHANGED <<dbVars, chVars, fnVars>>

NextScannerStop ==
    \/ NextScanner
    \/ StopOutside
    \/ CallbackStops

SpecScannerStop == InitScanner /\ [][NextScannerStop]_vars

(***************************************************************************)
(* ObjectCharacterizer::defineObject over a ScannerLVX                     *)
(***************************************************************************)
\* ScannerLVX.cc line 61: scan() runs readData in the caller's thread and
\* returns what it returns.
ScanBlocks == TRUE

\* enum CharacterizerState, lines 26-31.
CharacterizerStates == {"defBackground", "defObject", "defDiscard", "defStopped"}

\* Variant: an operation leaves the state as the callback left it.
PhaseEnd_Keep(s) == s

\* The state an operation leaves when its scan() has returned, whatever the
\* code it returned: Stopped.
PhaseEnd(s) == "defStopped"

\* What newPoint can do with a point in state s: filter it out, store it,
\* or find the phase's time elapsed.
PointKinds(s) ==
    CASE s = "defBackground" -> {"drop", "store", "deadline"}
      [] s = "defObject" -> {"drop", "store", "deadline"}
      [] s = "defDiscard" -> {"drop", "deadline"}
      [] OTHER -> {"drop"}

\* defineObject(): the buffer is emptied, the state set and the scanner
\* started.
DefineObjectCall ==
    /\ pcCh = "idle"
    /\ scan
    /\ state' = "defObject"
    /\ object' = <<>>
    /\ pcCh' = "scan"
    /\ UNCHANGED <<background, snapshot>>
    /\ UNCHANGED <<dbVars, fnVars>>

\* newPoint(p), the scanner's callback: a point is filtered out, stored in
\* the buffer of the running phase, or found past the phase's end, which
\* stops the phase and pauses the scanner; in Stopped it is dropped.
NewPoint ==
    /\ \E kind \in PointKinds(state) :
          LET pt == <<curFrame, frameOffset + 1, packetOffset + 1>>
          IN  /\ DeliverPoint(kind = "deadline")
              /\ object' = IF kind = "store" /\ state = "defObject"
                           THEN Append(object, pt) ELSE object
              /\ background' = IF kind = "store" /\ state = "defBackground"
                               THEN Append(background, pt) ELSE background
              /\ state' = IF kind = "deadline" THEN "defStopped" ELSE state
    /\ UNCHANGED <<pcCh, snapshot>>
    /\ UNCHANGED <<dbVars, fnVars>>

\* defineObject() goes on after scanner->scan() reported Ok or Eof: the
\* phase is over and the object is finalized.
DefineObjectFinalize ==
    /\ pcCh = "scan"
    /\ ScanBlocks => pcSc = "idle"
    /\ ret # "Error"
    /\ state' = PhaseEnd(state)
    /\ snapshot' = object
    /\ pcCh' = "octree"
    /\ UNCHANGED <<object, background>>
    /\ UNCHANGED <<dbVars, scVars, fnVars>>

\* scanner->scan() reported Error: the phase ends in Stopped and no object
\* is made.
DefineObjectAbort ==
    /\ pcCh = "scan"
    /\ ScanBlocks => pcSc = "idle"
    /\ ret = "Error"
    /\ state' = PhaseEnd(state)
    /\ pcCh' = "idle"
    /\ UNCHANGED <<object, background, snapshot>>
    /\ UNCHANGED <<dbVars, scVars, fnVars>>

\* The octree is built over the object buffer.
BuildOctree ==
    /\ pcCh = "octree"
    /\ pcCh' = "clustering"
    /\ UNCHANGED <<state, object, background, snapshot>>
    /\ UNCHANGED <<dbVars, scVars, fnVars>>

\* The clustering runs and defineObject() returns.
DefineObjectReturn ==
    /\ pcCh = "clustering"
    /\ pcCh' = "idle"
    /\ UNCHANGED <<state, object, background, snapshot>>
    /\ UNCHANGED <<dbVars, scVars, fnVars>>

InitCharacterizer == ScannerInit /\ DBScanUnused /\ CharacterizerInit /\ FunctionsUnused

NextCharacterizer ==
    \/ DefineObjectCall
    \/ NewPoint
    \/ NextPacket
    \/ NextFrame
    \/ ReadDataReturn
    \/ DefineObjectFinalize
    \/ DefineObjectAbort
    \/ BuildOctree
    \/ DefineObjectReturn

SpecCharacterizer == InitCharacterizer /\ [][NextCharacterizer]_vars

(***************************************************************************)
(* The characterizer's state machine: every operation                      *)
(***************************************************************************)
\* defineBackground(): the background buffer is emptied, the state set and
\* the scanner started.
DefineBackgroundCall ==
    /\ pcCh = "idle"
    /\ scan
    /\ state' = "defBackground"
    /\ background' = <<>>
    /\ pcCh' = "background"
    /\ UNCHANGED <<object, snapshot>>
    /\ UNCHANGED <<dbVars, fnVars>>

\* wait(ms): the state is set to Discard and the scanner started.
WaitCall ==
    /\ pcCh = "idle"
    /\ scan
    /\ state' = "defDiscard"
    /\ pcCh' = "wait"
    /\ UNCHANGED <<object, background, snapshot>>
    /\ UNCHANGED <<dbVars, fnVars>>

\* defineBackground() and wait() return once scanner->scan() has returned.
PhaseReturn ==
    /\ pcCh \in {"background", "wait"}
    /\ ScanBlocks => pcSc = "idle"
    /\ state' = PhaseEnd(state)
    /\ pcCh' = "idle"
    /\ UNCHANGED <<object, background, snapshot>>
    /\ UNCHANGED <<dbVars, scVars, fnVars>>

\* stop(), called between operations: the state is forced to Stopped and
\* the scanner paused.
StopCall ==
    /\ pcCh = "idle"
    /\ pcSc = "idle"
    /\ scanning
    /\ state' = "defStopped"
    /\ scanning' = FALSE
    /\ UNCHANGED <<object, background, pcCh, snapshot>>
    /\ UNCHANGED <<file, badFrame, released, lvxState, filePos, packets_of_frame, curFrame,
                   frameOffset, packetOffset, fileState, pcSc, ret, delivered, scans,
                   eofs, pausedAt, fetchFailed>>
    /\ UNCHANGED <<dbVars, fnVars>>

NextStateMachine ==
    \/ DefineBackgroundCall
    \/ DefineObjectCall
    \/ WaitCall
    \/ StopCall
    \/ NewPoint
    \/ NextPacket
    \/ NextFrame
    \/ ReadDataReturn
    \/ PhaseReturn
    \/ DefineObjectFinalize
    \/ DefineObjectAbort
    \/ BuildOctree
    \/ DefineObjectReturn

\* The files the operations are run over hold at most MaxPhaseFrames frames.
InitStateMachine == InitCharacterizer /\ Len(file) <= MaxPhaseFrames

SpecStateMachine == InitStateMachine /\ [][NextStateMachine]_vars

(***************************************************************************)
(* AnomalyDetector::compare: faces matched greedily, the AnomalyReport     *)
(***************************************************************************)
\* A face by the extents of its box: <<width, height, thickness>>.
FaceBoxes ==
    {<<w, h, t>> : w \in 1..MaxExtent, h \in 1..MaxExtent, t \in 0..MaxThickness}

FaceLists == UNION {[1..n -> FaceBoxes] : n \in 0..MaxFaces}

Min2(a, b) == IF a <= b THEN a ELSE b

Max2(a, b) == IF a >= b THEN a ELSE b

faceArea(f) == f[1] * f[2]

\* The in-plane extents in ascending order, then the thickness.
sortedExtents(f) == <<Min2(f[1], f[2]), Max2(f[1], f[2]), f[3]>>

\* The deltas of a face comparison: model minus object, extent by extent.
faceDeltas(fo, fm) ==
    LET o == sortedExtents(fo)
        m == sortedExtents(fm)
    IN  <<m[1] - o[1], m[2] - o[2], m[3] - o[3]>>

\* The combined dimensional distance: the sum of the absolute deltas.
faceDistance(fo, fm) ==
    LET d == faceDeltas(fo, fm) IN Abs(d[1]) + Abs(d[2]) + Abs(d[3])

\* A pair of faces is similar when every delta is within its tolerance.
faceSimilar(fo, fm) ==
    LET d == faceDeltas(fo, fm)
    IN  Abs(d[1]) <= EXTENT_TOLERANCE /\ Abs(d[2]) <= EXTENT_TOLERANCE
        /\ Abs(d[3]) <= THICKNESS_TOLERANCE

\* The object's faces in descending order of area, equal areas in the
\* order of the list.
areaOrder(O) ==
    CHOOSE s \in [1..Len(O) -> 1..Len(O)] :
        /\ \A k, l \in 1..Len(O) : k # l => s[k] # s[l]
        /\ \A k, l \in 1..Len(O) : k < l =>
              \/ faceArea(O[s[k]]) > faceArea(O[s[l]])
              \/ faceArea(O[s[k]]) = faceArea(O[s[l]]) /\ s[k] < s[l]

\* Variant: a model face can be taken by several object faces.
Unclaimed_Any(M, claimed) == 1..Len(M)

\* The model faces no object face has taken yet.
Unclaimed(M, claimed) == (1..Len(M)) \ claimed

\* The free model face nearest to face fo, 0 when none is free.
nearestFace(fo, M, claimed, last) ==
    LET free == Unclaimed(M, claimed)
        best == {j \in free : \A k \in free : faceDistance(fo, M[j]) <= faceDistance(fo, M[k])}
    IN  IF free = {} THEN 0
        ELSE IF last THEN CHOOSE j \in best : \A k \in best : k <= j
        ELSE CHOOSE j \in best : \A k \in best : j <= k

\* The greedy matching: the pairs <<object face, model face>> in the order
\* they are made, the model face 0 for an object face left without one.
RECURSIVE matchFaces(_, _, _, _, _)
matchFaces(order, O, M, claimed, last) ==
    IF order = <<>> THEN <<>>
    ELSE LET i == Head(order)
             j == nearestFace(O[i], M, claimed, last)
         IN  <<<<i, j>>>> \o matchFaces(Tail(order), O, M, claimed \cup ({j} \ {0}), last)

\* Variant: two objects without faces count as similar.
SameFaceCount_AllowEmpty(nO, nM) == nO = nM

\* The face counts allow a similar report: equal, and the object has faces
\* (AnomalyReport.hh line 21: "false si caras_objecto == 0").
SameFaceCount(nO, nM) == nO = nM /\ nO > 0

\* Variant: the flags of the face comparisons are not looked at.
AllPairsSimilar_Ignored(pairs, O, M) == TRUE

AllPairsSimilar(pairs, O, M) ==
    \A k \in 1..Len(pairs) :
        pairs[k][2] # 0 => faceSimilar(O[pairs[k][1]], M[pairs[k][2]])

\* compare(object, model): the report, built by AnomalyReport's constructor
\* (lines 33-34) from the flag, the delta of faces and the comparisons.
compare(O, M, last) ==
    LET pairs == matchFaces(areaOrder(O), O, M, {}, last)
    IN  [similar |-> SameFaceCount(Len(O), Len(M)) /\ AllPairsSimilar(pairs, O, M),
         deltaFaces |-> Len(M) - Len(O),
         faceComparisons |-> pairs]

CompareCall ==
    /\ report = <<>>
    /\ report' = <<compare(cmpObject, cmpModel, tieLast)>>
    /\ UNCHANGED <<cmpObject, cmpModel, tieLast>>
    /\ UNCHANGED <<dbVars, scVars, chVars, bbVars, frVars, cliVars>>

InitCompare ==
    /\ cmpObject \in FaceLists
    /\ cmpModel \in FaceLists
    /\ tieLast \in BOOLEAN
    /\ report = <<>>
    /\ DBScanUnused /\ ScannerUnused /\ CharacterizerInit
    /\ BBoxUnused /\ FramesUnused /\ CLIUnused

NextCompare == CompareCall

SpecCompare == InitCompare /\ [][NextCompare]_vars

(***************************************************************************)
(* The spatial pass over longer arrays, in ascending order of coordinate   *)
(***************************************************************************)
NonDecreasing(s) == \A a, b \in 1..Len(s) : a < b => s[a] <= s[b]

InitClustersSparse ==
    /\ points \in {s \in PointArrays(MaxSparsePoints, MaxSparseCoord) : NonDecreasing(s)}
    /\ cID = [i \in 1..Len(points) |-> cUnclassified]
    /\ octOrder \in OctreeOrders(Len(points))
    /\ MIN_CLUSTER_POINTS \in 2..MaxMinPoints
    /\ normals = <<>>
    /\ mode = "clusters"
    /\ pcDB = "idle"
    /\ clusterID = 0
    /\ clusters = <<>>
    /\ faces = <<>>
    /\ p = 1
    /\ centroid = 1
    /\ clusterSeeds = <<>>
    /\ seedIdx = 1
    /\ clusterPoints = <<>>
    /\ clusterNormals = <<>>
    /\ run = 0
    /\ fresh = TRUE
    /\ starts = <<>>
    /\ history = <<>>
    /\ ScannerUnused
    /\ CharacterizerInit
    /\ FunctionsUnused

SpecClustersSparse == InitClustersSparse /\ [][NextClusters]_vars

(***************************************************************************)
(* BBox: the bounding box of a point set (BBox.hh)                         *)
(***************************************************************************)
\* Variant: a default-constructed Point holds whatever was in memory.
DefaultPoint_NotZeroed == <<1, 1, 1>>

\* Point.hh line 45: Point() : x(), y(), z().
DefaultPoint == <<0, 0, 0>>

Points3D ==
    {<<x, y, z>> : x \in -MaxBoxCoord..MaxBoxCoord, y \in -MaxBoxCoord..MaxBoxCoord,
                   z \in -MaxBoxCoord..MaxBoxCoord}

PointLists == UNION {[1..n -> Points3D] : n \in 0..MaxBoxPoints}

\* Variant: only the lower bound follows the points.
grow_MinOnly(mn, mx, v) == IF mn > v THEN <<v, mx>> ELSE <<mn, mx>>

\* lines 43-47 for one coordinate: <<min, max>> after a point of coordinate v.
grow(mn, mx, v) ==
    IF mn > v THEN <<v, mx>>
    ELSE IF mx < v THEN <<mn, v>>
    ELSE <<mn, mx>>

\* lines 41-58: min and max after the points from position i on.
RECURSIVE growAll(_, _, _, _)
growAll(mn, mx, pts, i) ==
    IF i > Len(pts) THEN <<mn, mx>>
    ELSE LET g == [c \in 1..3 |-> grow(mn[c], mx[c], pts[i][c])]
         IN  growAll([c \in 1..3 |-> g[c][1]], [c \in 1..3 |-> g[c][2]], pts, i + 1)

\* Point.hh line 195: operator-.
minus(a, b) == [c \in 1..3 |-> a[c] - b[c]]

\* BBox(const std::vector<Point> &points), lines 37-61; the constructor
\* from pointers, lines 66-90, is the same code.
BBox(pts) ==
    IF Len(pts) > 0
    THEN LET mm == growAll(pts[1], pts[1], pts, 2)
         IN  [min |-> mm[1], max |-> mm[2], delta |-> minus(mm[2], mm[1])]
    ELSE [min |-> DefaultPoint, max |-> DefaultPoint, delta |-> DefaultPoint]

\* BBox::volume, line 178.
volume(b) == b.delta[1] * b.delta[2] * b.delta[3]

BBoxCall ==
    /\ bbox = <<>>
    /\ bbox' = <<BBox(bbPoints)>>
    /\ UNCHANGED bbPoints
    /\ UNCHANGED <<dbVars, scVars, chVars, cmpVars, frVars, cliVars>>

\* The box is dropped and another one is built from the same points
\* through the other constructor.
BBoxFromPointersCall ==
    /\ bbox # <<>>
    /\ bbox' = <<BBox(bbPoints)>>
    /\ UNCHANGED bbPoints
    /\ UNCHANGED <<dbVars, scVars, chVars, cmpVars, frVars, cliVars>>

InitBBox ==
    /\ bbPoints \in PointLists
    /\ bbox = <<>>
    /\ DBScanUnused /\ ScannerUnused /\ CharacterizerInit
    /\ ComparatorUnused /\ FramesUnused /\ CLIUnused

NextBBox == BBoxCall \/ BBoxFromPointersCall

SpecBBox == InitBBox /\ [][NextBBox]_vars

(***************************************************************************)
(* A point set through the spatial pass, its box, and the face pass        *)
(***************************************************************************)
\* A point of the line as a Point: Point(x, 0, 0).
OnLine(x) == <<x, 0, 0>>

\* After the spatial pass the caller hands an equal array, every tag the
\* constructor's default, to the face pass.
FacePassOnNewBuffer ==
    /\ mode = "clusters" /\ pcDB = "done"
    /\ run < MaxRuns
    /\ mode' = "normals"
    /\ cID' = [i \in 1..Len(points) |-> cUnclassified]
    /\ pcDB' = "idle"
    /\ UNCHANGED <<points, octOrder, MIN_CLUSTER_POINTS, normals,
                   clusterID, clusters, faces, p, centroid, clusterSeeds, seedIdx,
                   clusterPoints, clusterNormals, run, fresh, starts, history>>
    /\ UNCHANGED <<scVars, chVars, fnVars>>

InitPointSet ==
    /\ points \in PointArrays(MaxFacePoints, MaxFaceCoord)
    /\ cID = [i \in 1..Len(points) |-> cUnclassified]
    /\ octOrder \in OctreeOrders(Len(points))
    /\ MIN_CLUSTER_POINTS \in 2..MaxMinPoints
    /\ normals = <<>>
    /\ mode = "clusters"
    /\ pcDB = "idle"
    /\ clusterID = 0
    /\ clusters = <<>>
    /\ faces = <<>>
    /\ p = 1
    /\ centroid = 1
    /\ clusterSeeds = <<>>
    /\ seedIdx = 1
    /\ clusterPoints = <<>>
    /\ clusterNormals = <<>>
    /\ run = 0
    /\ fresh = TRUE
    /\ starts = <<>>
    /\ history = <<>>
    /\ bbPoints = [i \in 1..Len(points) |-> OnLine(points[i])]
    /\ bbox = <<>>
    /\ ScannerUnused /\ CharacterizerInit
    /\ ComparatorUnused /\ FramesUnused /\ CLIUnused

NextPointSet ==
    \/ ClustersCall
    \/ ClustersSkip
    \/ ExpandClusterNoise
    \/ ExpandClusterStart
    \/ ExpandClusterSeed
    \/ ExpandClusterReturn
    \/ ClustersReturn
    \/ FacePassOnNewBuffer
    \/ BBoxCall
    \/ NextNormals

SpecPointSet == InitPointSet /\ [][NextPointSet]_vars

(***************************************************************************)
(* ObjectCharacterizer's frame durations: milliseconds to nanoseconds      *)
(* Unsigned integers are little-endian sequences of bytes, so that the     *)
(* widths of uint32_t and uint64_t are the real ones.                      *)
(***************************************************************************)
\* 1000000 = 0x0F4240.
Million == <<64, 66, 15>>

\* Every uint32_t whose bytes are among ByteValues.
Millis == [1..UInt32Bytes -> ByteValues]

\* static_cast to a type of n bytes.
castTo(a, n) == [k \in 1..n |-> IF k <= Len(a) THEN a[k] ELSE 0]

\* The sum of the byte products of a and b that fall on byte k (from 0).
RECURSIVE columnSum(_, _, _, _)
columnSum(a, b, k, i) ==
    IF i > k THEN 0
    ELSE (IF i < Len(a) /\ k - i < Len(b) THEN a[i + 1] * b[k - i + 1] ELSE 0)
         + columnSum(a, b, k, i + 1)

\* a * b in a type of n bytes: the low n bytes of the product.
RECURSIVE multiplyFrom(_, _, _, _, _)
multiplyFrom(a, b, n, k, carry) ==
    IF k = n THEN <<>>
    ELSE LET s == columnSum(a, b, k, 0) + carry
         IN  <<s % ByteBase>> \o multiplyFrom(a, b, n, k + 1, s \div ByteBase)

multiply(a, b, n) == multiplyFrom(a, b, n, 0, 0)

\* Variant: the product is made in 32 bits and then widened.
toNanoseconds_NoCast(ms) == castTo(multiply(ms, Million, UInt32Bytes), UInt64Bytes)

\* lines 66, 124: static_cast<uint64_t>(objFrame) * 1000000.
toNanoseconds(ms) == multiply(castTo(ms, UInt64Bytes), Million, UInt64Bytes)

\* setObjFrame(ms), line 124.
setObjFrame ==
    \E ms \in Millis :
        /\ objMs' = ms
        /\ objFrame' = toNanoseconds(ms)
        /\ lastSet' = "setObjFrame"
        /\ UNCHANGED <<backMs, backFrame, frameDurationMs, characterizator>>
        /\ UNCHANGED <<dbVars, scVars, chVars, cmpVars, bbVars, cliVars>>

\* setBackFrame(ms), line 129.
setBackFrame ==
    \E ms \in Millis :
        /\ backMs' = ms
        /\ backFrame' = toNanoseconds(ms)
        /\ lastSet' = "setBackFrame"
        /\ UNCHANGED <<objMs, objFrame, frameDurationMs, characterizator>>
        /\ UNCHANGED <<dbVars, scVars, chVars, cmpVars, bbVars, cliVars>>

\* The constructor, lines 63-74, with any two durations.
InitFrames ==
    /\ objMs \in Millis
    /\ backMs \in Millis
    /\ objFrame = toNanoseconds(objMs)
    /\ backFrame = toNanoseconds(backMs)
    /\ lastSet = "ObjectCharacterizer"
    /\ frameDurationMs = <<>>
    /\ characterizator = <<>>
    /\ DBScanUnused /\ ScannerUnused /\ CharacterizerInit
    /\ ComparatorUnused /\ BBoxUnused /\ CLIUnused

NextFrames == setObjFrame \/ setBackFrame

SpecFrames == InitFrames /\ [][NextFrames]_vars

(***************************************************************************)
(* ObjectCharacterizator: the frame duration                               *)
(***************************************************************************)
\* The bytes a duration in milliseconds is made of: 4295 is <<199, 16, 0, 0>>.
DurationBytes == {0, 16, 199, 255}

DurationMillis == [1..UInt32Bytes -> DurationBytes]

\* ObjectCharacterizator.hh lines 30-35: in the initializer the name
\* frameDuration is the uint32_t parameter, so the product is made in
\* unsigned 32 bits and then widened to the uint64_t member of line 67.
ObjectCharacterizator(ms) ==
    [frameDuration |-> castTo(multiply(ms, Million, UInt32Bytes), UInt64Bytes),
     state |-> "defStopped",
     background |-> <<>>,
     object |-> <<>>]

\* new ObjectCharacterizator(ms)
NewObjectCharacterizator ==
    \E ms \in DurationMillis :
        /\ frameDurationMs' = ms
        /\ characterizator' = <<ObjectCharacterizator(ms)>>
        /\ UNCHANGED <<objMs, backMs, objFrame, backFrame, lastSet>>
        /\ UNCHANGED <<dbVars, scVars, chVars, cmpVars, bbVars, cliVars>>

InitFrameDuration ==
    /\ DBScanUnused /\ ScannerUnused /\ CharacterizerInit /\ FunctionsUnused

NextFrameDuration == NewObjectCharacterizator

SpecFrameDuration == InitFrameDuration /\ [][NextFrameDuration]_vars

(***************************************************************************)
(* CLICommand::parse (CLICommand.hh)                                       *)
(* A string is the sequence of its characters.                             *)
(***************************************************************************)
Space == " "

\* The characters the explored inputs are written with.
Alphabet == {Space, "s", "e", "t", "l", "i"}

Inputs == UNION {[1..n -> Alphabet] : n \in 0..MaxInputLen}

\* Variant: empty items are kept as parameters.
keepItem_Always(item) == TRUE

\* line 56: if (!item.empty()).
keepItem(item) == item # <<>>

\* lines 55-59: std::getline(commandStream, item, ' ') until the stream
\* ends, from character i on, `item` being the characters read since the
\* last space. The last item is extracted only if a character was read.
RECURSIVE getItems(_, _, _, _)
getItems(text, i, item, params) ==
    IF i > Len(text)
    THEN IF i > 1 /\ text[Len(text)] # Space /\ keepItem(item)
         THEN Append(params, item) ELSE params
    ELSE IF text[i] = Space
    THEN getItems(text, i + 1, <<>>, IF keepItem(item) THEN Append(params, item) ELSE params)
    ELSE getItems(text, i + 1, Append(item, text[i]), params)

\* lines 61-109: the type for the first item.
commandType(params) ==
    IF Len(params) > 0
    THEN LET first == params[1]
         IN  IF first = <<"e", "x", "i", "t">> THEN "kExit"
             ELSE IF first = <<"h", "e", "l", "p">> THEN "kHelp"
             ELSE IF first = <<"c", "h", "r", "o", "n", "o">> THEN "kChrono"
             ELSE IF first = <<"d", "e", "f", "i", "n", "e">> THEN "kDefine"
             ELSE IF first = <<"s", "e", "t">> THEN "kSet"
             ELSE IF first = <<"d", "i", "s", "c", "a", "r", "d">> THEN "kDiscard"
             ELSE IF first = <<"o", "b", "j", "e", "c", "t">> THEN "kObject"
             ELSE IF first = <<"m", "o", "d", "e", "l">> THEN "kModel"
             ELSE IF first = <<"i", "n", "f", "o">> THEN "kInfo"
             ELSE IF first = <<"l", "i", "s", "t">> THEN "kList"
             ELSE IF first = <<"a", "n", "a", "l", "y", "z", "e">> THEN "kAnalyze"
             ELSE "kUnknown"
    ELSE "kUnknown"

\* parse(input): {type, params} for a keyword, the default CLICommand
\* (lines 109, 146) otherwise.
parse(text) ==
    LET params == getItems(text, 1, <<>>, <<>>)
        type == commandType(params)
    IN  IF type = "kUnknown" THEN [type |-> "kUnknown", params |-> <<>>]
        ELSE [type |-> type, params |-> params]

\* lines 115, 121, 127.
getType(c) == c.type

isValid(c) == c.type # "kUnknown"

numParams(c) == IF Len(c.params) > 0 THEN Len(c.params) - 1 ELSE 0

ParseCall ==
    /\ command = <<>>
    /\ command' = <<parse(input)>>
    /\ UNCHANGED <<input, subIndex, subItem>>
    /\ UNCHANGED <<dbVars, scVars, chVars, cmpVars, bbVars, frVars>>

InitCLI ==
    /\ input \in Inputs
    /\ command = <<>>
    /\ subIndex = <<>>
    /\ subItem = <<>>
    /\ DBScanUnused /\ ScannerUnused /\ CharacterizerInit
    /\ ComparatorUnused /\ BBoxUnused /\ FramesUnused

NextCLI == ParseCall

SpecCLI == InitCLI /\ [][NextCLI]_vars

(***************************************************************************)
(* CLICommand::operator[]                                                  *)
(***************************************************************************)
\* The unsigned int values explored: 0, 1, 2 and UINT_MAX.
IndexValues == {<<0, 0, 0, 0>>, <<1, 0, 0, 0>>, <<2, 0, 0, 0>>, <<255, 255, 255, 255>>}

\* params.size(), a size_t.
size(params) == castTo(<<Len(params)>>, UInt64Bytes)

\* a - 1 in the type of a: it wraps below zero.
RECURSIVE decrement(_)
decrement(a) ==
    IF a = <<>> THEN <<>>
    ELSE IF a[1] > 0 THEN <<a[1] - 1>> \o Tail(a)
    ELSE <<ByteBase - 1>> \o decrement(Tail(a))

\* a + 1 in the type of a: it wraps above the maximum.
RECURSIVE increment(_)
increment(a) ==
    IF a = <<>> THEN <<>>
    ELSE IF a[1] < ByteBase - 1 THEN <<a[1] + 1>> \o Tail(a)
    ELSE <<0>> \o increment(Tail(a))

\* a > b for two values of one type, from byte k down.
RECURSIVE greaterFrom(_, _, _)
greaterFrom(a, b, k) ==
    IF k = 0 THEN FALSE
    ELSE IF a[k] # b[k] THEN a[k] > b[k]
    ELSE greaterFrom(a, b, k - 1)

greater(a, b) == greaterFrom(a, b, Len(a))

\* What a read outside the vector may give.
OutsideReads == {<<>>, <<"s">>}

\* line 136: params.size() - 1 > i, in size_t.
guardsIndex(params, i) == greater(decrement(size(params)), castTo(i, UInt64Bytes))

\* lines 134-137: operator[](i); every outcome the call can have, each
\* with whether the vector was read outside its elements.
subscript(c, i) ==
    IF guardsIndex(c.params, i)
    THEN LET at == castTo(increment(i), UInt64Bytes)
         IN  IF greater(size(c.params), at)
             THEN {[value |-> c.params[at[1] + 1], outside |-> FALSE]}
             ELSE {[value |-> v, outside |-> TRUE] : v \in OutsideReads}
    ELSE {[value |-> <<>>, outside |-> FALSE]}

\* command[i]
SubscriptCall ==
    /\ command # <<>>
    /\ subItem = <<>>
    /\ \E i \in IndexValues :
          /\ subIndex' = <<i>>
          /\ \E r \in subscript(command[1], i) : subItem' = <<r>>
    /\ UNCHANGED <<input, command>>
    /\ UNCHANGED <<dbVars, scVars, chVars, cmpVars, bbVars, frVars>>

\* The inputs explored: the short ones and those that start with "set".
IndexInputs ==
    {t \in Inputs : Len(t) <= 3 \/ SubSeq(t, 1, 3) = <<"s", "e", "t">>}

InitCLIIndex ==
    /\ input \in IndexInputs
    /\ command = <<>>
    /\ subIndex = <<>>
    /\ subItem = <<>>
    /\ DBScanUnused /\ ScannerUnused /\ CharacterizerInit
    /\ ComparatorUnused /\ BBoxUnused /\ FramesUnused

NextCLIIndex == ParseCall \/ SubscriptCall

SpecCLIIndex == InitCLIIndex /\ [][NextCLIIndex]_vars

(***************************************************************************)
(* The normals pass on finer normal directions: unit normals scaled by 25  *)
(* at 0, 16.26, 36.87, 53.13, 73.74 and 90 degrees, on arrays sorted along *)
(* the axis.                                                               *)
(***************************************************************************)
MaxFinePoints == 4
MaxFineCoord == 2

FineNormalDirs == {<<25, 0>>, <<24, 7>>, <<20, 15>>, <<15, 20>>, <<7, 24>>, <<0, 25>>}

\* lines 102-108 of normals(), the caller's normals drawn from FineNormalDirs.
NormalsCallFine ==
    /\ mode = "normals"
    /\ pcDB = "idle"
    /\ run < 1
    /\ run' = run + 1
    /\ fresh' = (\A i \in 1..Len(points) : cID[i] = cUnclassified)
    /\ normals' \in [1..Len(points) -> FineNormalDirs]
    /\ clusterID' = 0
    /\ faces' = <<>>
    /\ starts' = <<>>
    /\ p' = 1
    /\ pcDB' = "loop"
    /\ UNCHANGED <<points, cID, octOrder, MIN_CLUSTER_POINTS, mode, clusters,
                   centroid, clusterSeeds, seedIdx, clusterPoints, clusterNormals,
                   history>>
    /\ UNCHANGED <<scVars, chVars, fnVars>>

InitNormalsFine ==
    /\ points \in {s \in PointArrays(MaxFinePoints, MaxFineCoord) : NonDecreasing(s)}
    /\ cID = [i \in 1..Len(points) |-> cUnclassified]
    /\ octOrder = Identity(Len(points))
    /\ MIN_CLUSTER_POINTS = 2
    /\ normals = <<>>
    /\ mode = "normals"
    /\ pcDB = "idle"
    /\ clusterID = 0
    /\ clusters = <<>>
    /\ faces = <<>>
    /\ p = 1
    /\ centroid = 1
    /\ clusterSeeds = <<>>
    /\ seedIdx = 1
    /\ clusterPoints = <<>>
    /\ clusterNormals = <<>>
    /\ run = 0
    /\ fresh = TRUE
    /\ starts = <<>>
    /\ history = <<>>
    /\ ScannerUnused
    /\ CharacterizerInit
    /\ FunctionsUnused

NextNormalsFine ==
    \/ NormalsCallFine
    \/ NormalsSkip
    \/ ExpandNormalNoise
    \/ ExpandNormalStart
    \/ ExpandNormalSeed
    \/ ExpandNormalReturn
    \/ NormalsReturn

SpecNormalsFine == InitNormalsFine /\ [][NextNormalsFine]_vars

(***************************************************************************)
(* Properties of the spatial pass                                          *)
(***************************************************************************)
\* How often position i is listed over all the lists of `lists`.
Occurrences(lists, i) ==
    Cardinality({kj \in UNION {{<<k, j>> : j \in 1..Len(lists[k])} : k \in 1..Len(lists)} :
                    lists[kj[1]][kj[2]] = i})

ClustersDone == mode = "clusters" /\ pcDB = "done"

\* The points within CLUSTER_POINT_PROXIMITY of position j, whatever their tag.
Sphere(j) == {q \in 1..Len(points) : distance3D(points[q], points[j]) <= CLUSTER_POINT_PROXIMITY}

IsCore(j) == Cardinality(Sphere(j)) >= MIN_CLUSTER_POINTS

\* C1: after clusters() on an all-Unclassified buffer every point is either
\* tagged Noise and listed in no returned cluster, or carries a cluster id and
\* is listed exactly once over all returned clusters; none stays Unclassified.
C1_ClustersPartition ==
    (ClustersDone /\ fresh) =>
        \A i \in 1..Len(points) :
            /\ cID[i] # cUnclassified
            /\ \/ cID[i] = cNoise /\ Occurrences(clusters, i) = 0
               \/ cID[i] >= 0 /\ Occurrences(clusters, i) = 1

C1_Witness ==
    /\ ClustersDone /\ fresh
    /\ clusters # <<>>
    /\ \E i \in 1..Len(points) : cID[i] = cNoise

\* C3: after clusters() every point tagged with a cluster id k lies within
\* CLUSTER_POINT_PROXIMITY of a point of cluster k whose sphere holds at
\* least MIN_CLUSTER_POINTS points.
C3_NearCoreOfOwnCluster ==
    (ClustersDone /\ fresh) =>
        \A i \in 1..Len(points) :
            cID[i] >= 0 =>
                \E j \in Sphere(i) : cID[j] = cID[i] /\ IsCore(j)

C3_Witness ==
    /\ ClustersDone /\ fresh
    /\ \E i \in 1..Len(points) : cID[i] >= 0 /\ ~IsCore(i)

StrictlyIncreasing(s) == \A a, b \in 1..Len(s) : a < b => s[a] < s[b]

IndexSets(lists) == {Range(lists[k]) : k \in 1..Len(lists)}

SecondPassOnLeftBuffer == Len(history) = 2 /\ ~history[2].fresh

\* C8 as stated: a second pass over the buffer as the first left it returns
\* the same index sets as clusters and every point keeps its membership.
C8_SameClustersOnRerun ==
    SecondPassOnLeftBuffer =>
        /\ IndexSets(history[2].clusters) = IndexSets(history[1].clusters)
        /\ history[2].cID = history[1].cID

\* C8 amended: a second pass over the buffer as the first left it keeps every
\* point's tag and returns no cluster at all.
C8_RerunKeepsTagsReturnsNothing ==
    SecondPassOnLeftBuffer =>
        /\ history[2].clusters = <<>>
        /\ history[2].cID = history[1].cID

C8_Witness ==
    /\ SecondPassOnLeftBuffer
    /\ history[1].clusters # <<>>
    /\ \E i \in 1..Len(points) : history[1].cID[i] = cNoise

(***************************************************************************)
(* Properties of the normal-coherent pass                                  *)
(***************************************************************************)
NormalsDone == mode = "normals" /\ pcDB = "done"

NoDuplicates(s) == \A a, b \in 1..Len(s) : a # b => s[a] # s[b]

Ascending(s) == \A a, b \in 1..Len(s) : a < b => s[a] <= s[b]

InOneFaceOrNoise(i) ==
    \/ cID[i] = cNoise /\ Occurrences(faces, i) = 0
    \/ cID[i] >= 0 /\ Occurrences(faces, i) = 1

\* C4 as stated: after normals() on an all-Unclassified buffer every point
\* is listed in exactly one face or tagged Noise.
C4_FacesPartitionAllPoints ==
    (NormalsDone /\ fresh) => \A i \in 1..Len(points) : InOneFaceOrNoise(i)

\* C4 amended: that holds of every point that has a normal; a point whose
\* normal is the zero vector stays Unclassified and is listed in no face.
C4_FacesPartitionPointsWithNormal ==
    (NormalsDone /\ fresh) =>
        \A i \in 1..Len(points) :
            IF normals[i] # ZeroVector
            THEN InOneFaceOrNoise(i)
            ELSE cID[i] = cUnclassified /\ Occurrences(faces, i) = 0

C4_Witness ==
    /\ NormalsDone /\ fresh
    /\ faces # <<>>
    /\ \E i \in 1..Len(points) : normals[i] = ZeroVector

\* C5: no list returned by clusters() or normals() for an all-Unclassified
\* buffer holds an index twice; neither does the list being gathered.
C5_NoIndexTwice ==
    fresh =>
        /\ \A k \in 1..Len(clusters) : NoDuplicates(clusters[k])
        /\ \A k \in 1..Len(faces) : NoDuplicates(faces[k])
        /\ pcDB = "expand" => NoDuplicates(clusterPoints)

C5_Witness ==
    /\ NormalsDone /\ fresh
    /\ \E k \in 1..Len(faces) : Len(faces[k]) >= 3 /\ ~Ascending(faces[k])

\* C6: every face list returned by normals() is in ascending index order.
C6_FacesAscending ==
    NormalsDone => \A k \in 1..Len(faces) : Ascending(faces[k])

(***************************************************************************)
(* Properties of the scanner                                               *)
(***************************************************************************)
RECURSIVE Flatten(_)
Flatten(ss) == IF ss = <<>> THEN <<>> ELSE Head(ss) \o Flatten(Tail(ss))

\* The points of the file in file order, each <<frame, packet, point>>.
PointsOfPacket(f, k) ==
    IF file[f][k] = "ext" THEN [j \in 1..PointsPerPacket |-> <<f, k, j>>] ELSE <<>>

PointsOfFrame(f) == Flatten([k \in 1..Len(file[f]) |-> PointsOfPacket(f, k)])

PointsOfFile == Flatten([f \in 1..Len(file) |-> PointsOfFrame(f)])

ScanReturned == pcSc = "idle" /\ ret # "None"

\* C2: when scan() returns Eof for the first time, whatever pauses the
\* callback made on the way, the callback has been invoked exactly once for
\* each point of the file, in file order.
C2_EachPointOnceInOrder ==
    (ScanReturned /\ ret = "Eof" /\ eofs = 1) => delivered = PointsOfFile

\* C9: scan() returns Eof only with every point of the file delivered, and
\* it returns Error when a frame's read failed.
C9_ScanSurfacesOutcome ==
    ScanReturned =>
        /\ (ret = "Eof" /\ eofs = 1) => Range(PointsOfFile) \subseteq Range(delivered)
        /\ fetchFailed => ret = "Error"

(***************************************************************************)
(* Properties of the characterizer                                         *)
(***************************************************************************)
Analysing == pcCh \in {"octree", "clustering"}

NoAppendWhileAnalysing ==
    Analysing =>
        /\ pcSc = "idle"
        /\ object = snapshot
        /\ scanning => fileState = "ReadFail"

Compared == report # <<>>

\* The model faces of the matched pairs of the report[1].
MatchedPairs == {k \in 1..Len(report[1].faceComparisons) : report[1].faceComparisons[k][2] # 0}

EveryMatchedPairSimilar ==
    \A k \in MatchedPairs :
        faceSimilar(cmpObject[report[1].faceComparisons[k][1]],
                    cmpModel[report[1].faceComparisons[k][2]])

C14_SelfCompareSimilar ==
    (Compared /\ cmpObject = cmpModel /\ cmpObject # <<>>) =>
        LET pairs == report[1].faceComparisons
        IN  /\ report[1].similar
            /\ report[1].deltaFaces = 0
            /\ {pairs[k][1] : k \in 1..Len(pairs)} = 1..Len(cmpObject)
            /\ \A k \in 1..Len(pairs) : pairs[k][2] \in 1..Len(cmpModel)
            /\ \A k, l \in 1..Len(pairs) : k # l => pairs[k][2] # pairs[l][2]

\* An object with two faces of the same extents was compared with itself.
C14_Witness ==
    /\ Compared
    /\ cmpObject = cmpModel
    /\ Len(cmpObject) = 2
    /\ sortedExtents(cmpObject[1]) = sortedExtents(cmpObject[2])
    /\ cmpObject[1] # cmpObject[2]

(***************************************************************************)
(* Properties of the spatial pass on particular inputs                     *)
(***************************************************************************)
AllIdentical == \A i, j \in 1..Len(points) : points[i] = points[j]

\* C15: when all N points have the same coordinates, clusters() returns one
\* cluster holding each of the N indices if N >= MIN_CLUSTER_POINTS, and
\* otherwise returns no cluster and tags every point Noise.
C15_IdenticalPointsOneCluster ==
    (ClustersDone /\ fresh /\ AllIdentical) =>
        IF Len(points) >= MIN_CLUSTER_POINTS
        THEN /\ Len(clusters) = 1
             /\ Range(clusters[1]) = 1..Len(points)
             /\ Len(clusters[1]) = Len(points)
        ELSE /\ clusters = <<>>
             /\ \A i \in 1..Len(points) : cID[i] = cNoise

\* Three or more identical points made a cluster.
C15_Witness ==
    /\ ClustersDone /\ fresh /\ AllIdentical
    /\ Len(points) >= 3
    /\ Len(points) >= MIN_CLUSTER_POINTS
    /\ clusters # <<>>

\* A point is being visited while Unclassified.
VisitedUnclassified ==
    /\ mode = "clusters" /\ pcDB = "loop"
    /\ p <= Len(points)
    /\ cID[p] = cUnclassified

\* C20: a point visited while Unclassified is tagged Noise exactly when its
\* sphere holds fewer than MIN_CLUSTER_POINTS points, whatever their tags,
\* and starts a cluster otherwise.
C20_NoiseIffSparseSphere ==
    [][VisitedUnclassified =>
          /\ (cID'[p] = cNoise) <=> ~IsCore(p)
          /\ IsCore(p) => starts' = Append(starts, p)]_vars

(***************************************************************************)
(* Properties of the bounding box                                          *)
(***************************************************************************)
Coords(c) == {bbPoints[i][c] : i \in 1..Len(bbPoints)}

\* C18: the box of a non-empty point set has for min and max the
\* component-wise minimum and maximum of the points, delta = max - min with
\* no negative component, and for volume the product of the deltas.
C18_BBoxIsTightHull ==
    (bbox # <<>> /\ bbPoints # <<>>) =>
        LET b == bbox[1]
        IN  /\ \A c \in 1..3 :
                  /\ b.min[c] \in Coords(c) /\ \A v \in Coords(c) : b.min[c] <= v
                  /\ b.max[c] \in Coords(c) /\ \A v \in Coords(c) : v <= b.max[c]
                  /\ b.delta[c] = b.max[c] - b.min[c]
                  /\ b.delta[c] >= 0
            /\ volume(b) = (b.max[1] - b.min[1]) * (b.max[2] - b.min[2]) * (b.max[3] - b.min[3])

\* A box of positive volume whose first point gives neither its min nor
\* its max in x.
C18_Witness ==
    /\ bbox # <<>> /\ Len(bbPoints) = 3
    /\ bbox[1].min[1] < bbPoints[1][1] /\ bbPoints[1][1] < bbox[1].max[1]
    /\ volume(bbox[1]) > 0

\* C16: on an empty point set clusters() returns no cluster, normals()
\* returns no face, and the box has min = max = delta = (0,0,0) and volume 0.
C16_EmptySetEmptyResults ==
    points = <<>> =>
        /\ ClustersDone => clusters = <<>>
        /\ NormalsDone => faces = <<>> /\ clusters = <<>>
        /\ bbox # <<>> =>
              /\ bbox[1].min = <<0, 0, 0>>
              /\ bbox[1].max = <<0, 0, 0>>
              /\ bbox[1].delta = <<0, 0, 0>>
              /\ volume(bbox[1]) = 0

\* The empty set went through clusters(), then normals(), and its box was
\* built.
C16_Witness ==
    /\ points = <<>> /\ bbPoints = <<>>
    /\ NormalsDone
    /\ Len(history) = 2
    /\ bbox # <<>>

(***************************************************************************)
(* Properties of the frame durations                                       *)
(***************************************************************************)
\* ms * 1000000 in full: a product of two numbers has no more bytes than
\* the two together.
ExactNanoseconds(ms) == multiply(ms, Million, Len(ms) + Len(Million))

\* The number a sequence of bytes stands for, as its bytes without the
\* leading zeros.
RECURSIVE Numeral(_)
Numeral(a) ==
    IF a = <<>> THEN <<>>
    ELSE IF a[Len(a)] = 0 THEN Numeral(SubSeq(a, 1, Len(a) - 1))
    ELSE a

\* C17: the constructor and the setters store ms * 1000000 exactly, for
\* every 32-bit ms, and the getters return it.
C17_NanosecondsExact ==
    (objMs # <<>>) =>
        /\ Numeral(objFrame) = Numeral(ExactNanoseconds(objMs))
        /\ Numeral(backFrame) = Numeral(ExactNanoseconds(backMs))

\* The largest 32-bit value was given for one duration, a value whose
\* product passes 32 bits for the other.
C17_Witness ==
    /\ lastSet = "setObjFrame"
    /\ objMs = [k \in 1..UInt32Bytes |-> 255]
    /\ backMs = <<0, 255, 0, 0>>
    /\ Len(Numeral(objFrame)) = 7

(***************************************************************************)
(* Properties of the command parser                                        *)
(***************************************************************************)
\* The positions of the input where a token starts: a character other than
\* a space that is first or follows a space.
TokenStarts ==
    {i \in 1..Len(input) : input[i] # Space /\ (i = 1 \/ input[i - 1] = Space)}

\* The token starting at position i: the characters up to the next space.
TokenAt(i) ==
    LET stop == {j \in i..Len(input) : input[j] = Space}
        last == IF stop = {} THEN Len(input)
                ELSE (CHOOSE j \in stop : \A k \in stop : j <= k) - 1
    IN  SubSeq(input, i, last)

FirstToken == TokenAt(CHOOSE i \in TokenStarts : \A k \in TokenStarts : i <= k)

\* The eleven keywords and their types.
KeywordTypes ==
    {<<<<"e", "x", "i", "t">>, "kExit">>,
     <<<<"h", "e", "l", "p">>, "kHelp">>,
     <<<<"c", "h", "r", "o", "n", "o">>, "kChrono">>,
     <<<<"d", "e", "f", "i", "n", "e">>, "kDefine">>,
     <<<<"s", "e", "t">>, "kSet">>,
     <<<<"d", "i", "s", "c", "a", "r", "d">>, "kDiscard">>,
     <<<<"o", "b", "j", "e", "c", "t">>, "kObject">>,
     <<<<"m", "o", "d", "e", "l">>, "kModel">>,
     <<<<"i", "n", "f", "o">>, "kInfo">>,
     <<<<"l", "i", "s", "t">>, "kList">>,
     <<<<"a", "n", "a", "l", "y", "z", "e">>, "kAnalyze">>}

\* C19: with a keyword as first token the command is valid, of the
\* keyword's type, and numParams() is the number of tokens after the first;
\* with any other first token, or no token, the command is invalid, of type
\* kUnknown, and numParams() is 0.
C19_ParseKeywordAndParams ==
    command # <<>> =>
        IF TokenStarts # {} /\ \E kt \in KeywordTypes : kt[1] = FirstToken
        THEN /\ isValid(command[1])
             /\ <<FirstToken, getType(command[1])>> \in KeywordTypes
             /\ numParams(command[1]) = Cardinality(TokenStarts) - 1
        ELSE /\ ~isValid(command[1])
             /\ getType(command[1]) = "kUnknown"
             /\ numParams(command[1]) = 0

\* A keyword after a leading space, then two spaces and a parameter.
C19_Witness ==
    /\ command # <<>>
    /\ input = <<Space, "s", "e", "t", Space, Space, "l">>
    /\ getType(command[1]) = "kSet"
    /\ numParams(command[1]) = 1


(***************************************************************************)
(* Properties of the mean normal during a seed's neighbourhood query       *)
(***************************************************************************)
\* The neighbours of seed c absorbed when each candidate is tested against
\* the mean of the normals of the cluster as it stands at that test.
RECURSIVE RunningMeanAbsorb(_, _, _)
RunningMeanAbsorb(nb, c, nrm) ==
    IF nb = <<>> THEN <<>>
    ELSE LET i == Head(nb)
         IN  IF cID[i] < 0 /\ NormalCoherent(c, mean(nrm), i)
             THEN <<i>> \o RunningMeanAbsorb(Tail(nb), c, Append(nrm, normals[i]))
             ELSE RunningMeanAbsorb(Tail(nb), c, nrm)

SeedQueryAbsorbs ==
    /\ mode = "normals" /\ pcDB = "expand"
    /\ seedIdx <= Len(clusterSeeds)
    /\ IsCoreFaceSeed(centroidNormalNeighbours(clusterSeeds[seedIdx], mean(clusterNormals)))

\* C21: in a seed's neighbourhood query every candidate is tested against
\* the mean of the normals of all points in the cluster at the moment of
\* the test, those absorbed earlier in the same query included: the points
\* the query adds to the cluster are those the running mean accepts.
C21_MeanOverCurrentCluster ==
    [][SeedQueryAbsorbs =>
         clusterPoints' = clusterPoints \o
             RunningMeanAbsorb(searchNeighbors(points[clusterSeeds[seedIdx]], FACE_POINT_PROXIMITY),
                               clusterSeeds[seedIdx], clusterNormals)]_vars


(***************************************************************************)
(* Properties of points without a normal                                   *)
(***************************************************************************)
HasNoNormal(i) == normals[i] = ZeroVector

NoNormalOutsideFaces ==
    (mode = "normals" /\ Len(normals) = Len(points)) =>
        \A i \in 1..Len(points) :
            HasNoNormal(i) =>
                /\ i \notin Range(starts)
                /\ Occurrences(faces, i) = 0
                /\ pcDB = "expand" => i \notin Range(clusterPoints)

NoNormalKeepsTag ==
    (mode = "normals" /\ Len(normals') = Len(points)) =>
        \A i \in 1..Len(points) : normals'[i] = ZeroVector => cID'[i] = cID[i]

\* C22: normals() never starts a face from a point whose normal is the zero
\* vector, never lists such a point in a face (returned or being gathered),
\* and no step of normals() changes the tag of such a point.
C22_ZeroNormalUntouched == []NoNormalOutsideFaces /\ [][NoNormalKeepsTag]_vars

\* A finished pass with a face next to a point without a normal.
C22_Witness ==
    /\ NormalsDone
    /\ \E i \in 1..Len(points) :
          /\ HasNoNormal(i)
          /\ \E k \in 1..Len(faces) : \E j \in Range(faces[k]) :
                distance3D(points[j], points[i]) <= FACE_POINT_PROXIMITY


(***************************************************************************)
(* Properties of the tags during a pass                                    *)
(***************************************************************************)
\* clusters() is running: between its call and its return.
InClustersPass == mode = "clusters" /\ pcDB \in {"loop", "expand"}

\* The Noise points within CLUSTER_POINT_PROXIMITY of position j.
NoiseIn(j) == {i \in Sphere(j) : cID[i] = cNoise}

\* The step in which point p starts a cluster.
ClusterStarts == mode = "clusters" /\ pcDB = "loop" /\ pcDB' = "expand"

\* The step in which the seed in turn, its sphere holding enough points,
\* has its neighbours absorbed.
CoreSeedQueried ==
    /\ mode = "clusters" /\ pcDB = "expand"
    /\ seedIdx <= Len(clusterSeeds) /\ seedIdx' = seedIdx + 1
    /\ IsCore(clusterSeeds[seedIdx])

Joins(i) == cID'[i] = clusterID /\ i \in Range(clusterPoints')

NoiseRetagged ==
    /\ ClusterStarts => \A i \in NoiseIn(p) : Joins(i)
    /\ CoreSeedQueried => \A i \in NoiseIn(clusterSeeds[seedIdx]) : Joins(i)
    /\ \A i \in 1..Len(points) :
          (InClustersPass /\ cID[i] = cNoise /\ cID'[i] # cNoise) =>
              /\ Joins(i)
              /\ \/ ClusterStarts /\ i \in Sphere(p)
                 \/ CoreSeedQueried /\ i \in Sphere(clusterSeeds[seedIdx])

\* C23: a Noise point in the sphere of the point that starts cluster k, or
\* in the sphere of a seed of cluster k whose sphere holds at least
\* MIN_CLUSTER_POINTS points, is tagged k and listed in cluster k; a Noise
\* tag changes in no other step, and to no other value.
C23_NoiseJoinsCluster == [][NoiseRetagged]_vars

\* A finished pass in which one cluster took a point visited (and tagged
\* Noise) before the cluster's start from the start's sphere and another
\* such point from the sphere of a seed only.
C23_Witness ==
    /\ ClustersDone /\ fresh
    /\ \E k \in 1..Len(clusters) : \E i, j \in Range(clusters[k]) :
          /\ i < starts[k] /\ i \in Sphere(starts[k])
          /\ j < starts[k] /\ j \notin Sphere(starts[k])


(***************************************************************************)
(* Properties of pausing and resuming the scanner                          *)
(***************************************************************************)
\* The callback called pause() on the last point delivered.
PausedOnLastPoint == delivered # <<>> /\ Len(delivered) \in pausedAt

\* scan() is running and pause() was called from its callback.
PausedInCallback == pcSc # "idle" /\ ~scanning /\ PausedOnLastPoint

\* The step in which a call of scan() is made.
ScanIsCalled == scans' = scans + 1

\* scan() has returned Ok after such a pause and was not called since.
PausedScanReturned == pcSc = "idle" /\ ret = "Ok" /\ ~scanning /\ PausedOnLastPoint

PausedScanEnds ==
    /\ PausedInCallback =>
          /\ delivered' = delivered
          /\ ~scanning'
          /\ pcSc' = "idle" => ret' = "Ok"
    /\ (ScanIsCalled /\ PausedScanReturned) => (ret' # "Error" /\ scanning')

\* C24: once the callback has called pause() the running scan() hands no
\* further point to the callback and returns Ok, neither Eof nor Error, with
\* the scanning flag false; the scan() called next is accepted.
C24_PauseEndsScanWithOk == [][PausedScanEnds]_vars

\* scan() returned after a pause on the first point of the last frame, the
\* offsets both zero.
C24_Witness ==
    /\ PausedScanReturned
    /\ frameOffset = 0 /\ packetOffset = 0
    /\ filePos > Len(file)
    /\ scans >= 2


ScanWhileScanning ==
    (ScanIsCalled /\ scanning) =>
        /\ ret' = "Error" /\ pcSc' = pcSc
        /\ delivered' = delivered
        /\ frameOffset' = frameOffset /\ packetOffset' = packetOffset
        /\ scanning'

\* C25: scan() called while the scanning flag is true returns Error, hands
\* no point to the callback and leaves frameOffset, packetOffset and the
\* scanning flag as they were.
C25_BusyScanRejected == [][ScanWhileScanning]_vars

\* scan() was rejected while a packet was half delivered.
C25_Witness ==
    /\ ret = "Error" /\ scanning
    /\ frameOffset > 0 /\ packetOffset > 0


(***************************************************************************)
(* Properties of scanning the file again                                   *)
(***************************************************************************)
RECURSIVE Repeat(_, _)
Repeat(s, n) == IF n = 0 THEN <<>> ELSE s \o Repeat(s, n - 1)

\* scan() has returned Ok with the flag cleared: it was paused.
ReturnedPaused == pcSc = "idle" /\ ret = "Ok" /\ ~scanning

AfterEofAndAfterPause ==
    \* after Eof the next scan() opens the file again
    /\ (pcSc = "idle" /\ ret = "Eof") => MustReopen
    \* after a pause it does not
    /\ ReturnedPaused => ~MustReopen
    \* once Eof was returned a scan() returns anything else only when the
    \* callback paused it (or the file could not be opened again)
    /\ (pcSc = "idle" /\ eofs >= 1 /\ ret # "Eof" /\ lvxState # "OpenFail") =>
          (ReturnedPaused /\ PausedOnLastPoint)
    \* without pauses every Eof closes one more full delivery of the file
    /\ (pcSc = "idle" /\ ret = "Eof" /\ pausedAt = {}) =>
          delivered = Repeat(PointsOfFile, eofs)

ScanAfterEofStartsOver ==
    (ScanIsCalled /\ pcSc = "idle" /\ ret = "Eof" /\ lvxState' # "OpenFail") =>
        /\ pcSc' = "while" /\ scanning'
        /\ frameOffset' = 0 /\ packetOffset' = 0
        /\ file # <<>> => (curFrame' = 1 /\ packets_of_frame' = file[1])

\* C26: the scan() after one that returned Eof opens the file again and
\* delivers from the first frame, ending with Eof again unless paused; the
\* scan() after a pause never opens the file again.
C26_EofRestartsPauseResumes == []AfterEofAndAfterPause /\ [][ScanAfterEofStartsOver]_vars

\* Two unpaused deliveries of a file of two frames with points, each ended
\* by Eof.
C26_Witness ==
    /\ pcSc = "idle" /\ ret = "Eof" /\ eofs = 2
    /\ pausedAt = {}
    /\ Len(file) = 2
    /\ Len(delivered) = 2 * Len(PointsOfFile)
    /\ Len(PointsOfFile) > PointsPerPacket


(***************************************************************************)
(* Properties of ObjectCharacterizator's frame duration                    *)
(***************************************************************************)
\* C27: for every 32-bit ms given to the ObjectCharacterizator constructor
\* the 64-bit frameDuration stored is ms * 1000000 exactly, with no wrap
\* modulo 2^32.
C27_FrameDurationExact ==
    (characterizator # <<>>) =>
        Numeral(characterizator[1].frameDuration) = Numeral(ExactNanoseconds(frameDurationMs))


ResumesInsideFrame ==
    (ScanIsCalled /\ PausedScanReturned) =>
        /\ curFrame' = curFrame
        /\ packets_of_frame' = packets_of_frame
        /\ filePos' = filePos

\* C28: the scan() that follows a pause() goes on inside the frame that was
\* being delivered: it fetches no frame while points of that frame are
\* undelivered, also when the pause came on the first point of the frame's
\* first packet.
C28_ResumeInsideFrame == [][ResumesInsideFrame]_vars


(***************************************************************************)
(* Properties of the scanning flag                                         *)
(***************************************************************************)
\* The step in which a scan() that passed line 52 and read returns.
ReadingScanReturns == pcSc # "idle" /\ pcSc' = "idle"

ReturnClearsFlag == ReadingScanReturns => ~scanning'

\* C29: when a scan() that found the scanner idle and started to read
\* returns, the scanning flag is false, so the next scan() is not rejected.
C29_FlagClearedOnReturn == [][ReturnClearsFlag]_vars


(***************************************************************************)
(* Properties of the tag transitions                                       *)
(***************************************************************************)
\* clusters() or normals() is running: between the call and the return.
InPass == mode \in {"clusters", "normals"} /\ pcDB \in {"loop", "expand"}

TagMoves(i) ==
    \/ cID'[i] = cID[i]
    \/ cID[i] = cUnclassified /\ cID'[i] = cNoise
    \/ cID[i] = cUnclassified /\ cID'[i] = clusterID /\ clusterID >= 0
    \/ cID[i] = cNoise /\ cID'[i] = clusterID /\ clusterID >= 0

OnlyForwardTagMoves == InPass => \A i \in 1..Len(points) : TagMoves(i)

\* C30: during one clustering pass a tag only moves from Unclassified to
\* Noise, from Unclassified to a cluster id or from Noise to a cluster id; a
\* tag that is a cluster id never changes later in the pass.
C30_TagsOnlyMoveForward == [][OnlyForwardTagMoves]_vars

\* A finished pass in which a point went from Unclassified to Noise and
\* then into a cluster, next to a point left Noise.
C30_Witness ==
    /\ ClustersDone /\ fresh
    /\ \E k \in 1..Len(clusters) : \E i \in Range(clusters[k]) : i < starts[k]
    /\ \E i \in 1..Len(points) : cID[i] = cNoise


(***************************************************************************)
(* Properties of the cluster ids                                           *)
(***************************************************************************)
\* The indices of the points tagged t.
Tagged(t) == {i \in 1..Len(points) : cID[i] = t}

\* C31: after clusters() on an all-Unclassified buffer that returns n
\* clusters the ids carried as tags are exactly 0..n-1, and the k-th cluster
\* returned lists exactly the indices of the points tagged k (from 0).
C31_IdsMatchClusters ==
    (ClustersDone /\ fresh) =>
        /\ {cID[i] : i \in {j \in 1..Len(points) : cID[j] >= 0}} = 0..(Len(clusters) - 1)
        /\ \A k \in 1..Len(clusters) : Range(clusters[k]) = Tagged(k - 1)

\* A finished pass with two clusters, the second started after a point was
\* tagged Noise.
C31_Witness ==
    /\ ClustersDone /\ fresh
    /\ Len(clusters) = 2
    /\ \E i \in 1..Len(points) : cID[i] = cNoise /\ i < starts[2]


(***************************************************************************)
(* Properties of the seed worklist                                         *)
(***************************************************************************)
WorklistBounded ==
    (mode \in {"clusters", "normals"} /\ pcDB = "expand") =>
        /\ NoDuplicates(clusterSeeds)
        /\ Len(clusterSeeds) <= Len(points)
        /\ seedIdx <= Len(clusterSeeds) + 1

\* C32: no point index is in a cluster's seed worklist twice, so the
\* worklist never holds more entries than there are points, and a running
\* clusters() or normals() comes to its return.
C32_WorklistBoundedPassEnds == []WorklistBounded /\ (InPass ~> (pcDB = "done"))

\* A worklist that grew during the expansion to hold every point but the
\* starting one.
C32_Witness ==
    /\ mode \in {"clusters", "normals"} /\ pcDB = "expand"
    /\ Len(points) >= 3
    /\ Len(clusterSeeds) = Len(points) - 1
    /\ seedIdx > Len(clusterSeeds)
    /\ ~(\A i \in Range(clusterSeeds) : distance3D(points[i], points[centroid]) <= CLUSTER_POINT_PROXIMITY)


(***************************************************************************)
(* Properties of stopping the scanner                                      *)
(***************************************************************************)
\* readData takes a step that reads a packet of the buffer (lines 107-122).
BufferIsRead ==
    /\ InFrame
    /\ delivered' # delivered \/ frameOffset' # frameOffset \/ pcSc' # pcSc

AfterStop ==
    released > 0 => (delivered' = delivered /\ ~BufferIsRead)

\* C33: once stop() was called no further point goes to the callback and
\* the released buffer is not read again, also when stop() was called from
\* the callback of a running scan() without pause(); the buffer is released
\* at most once however often stop() is called.
C33_StopEndsDelivery == [](released <= 1) /\ [][AfterStop]_vars


(***************************************************************************)
(* Properties of the command's subscript                                   *)
(***************************************************************************)
\* The tokens of the input, in order.
RECURSIVE TokensFrom(_)
TokensFrom(i) ==
    IF i > Len(input) THEN <<>>
    ELSE IF i \in TokenStarts THEN <<TokenAt(i)>> \o TokensFrom(i + 1)
    ELSE TokensFrom(i + 1)

\* The index as a number, when it is one of the small ones.
SmallIndex == IF subIndex[1][2] = 0 THEN subIndex[1][1] ELSE MaxInputLen + 1

\* C34: for every command, the invalid one of an unknown or empty input
\* included, and every unsigned i, operator[](i) gives the parameter after
\* the (i+1)-th token when i < numParams() and the empty string otherwise,
\* and reads nothing outside the token vector.
C34_SubscriptInsideTokens ==
    (subItem # <<>>) =>
        /\ ~subItem[1].outside
        /\ subItem[1].value = IF SmallIndex < numParams(command[1])
                           THEN TokensFrom(1)[SmallIndex + 2]
                           ELSE <<>>

====
